---- MODULE Spec2Model ----
(***************************************************************************)
(* Ditto: the inventory scanner (general and graded variants), its schema  *)
(* validator, and the removal and price-update tools that share            *)
(* inventory.json with it.                                                 *)
(*                                                                         *)
(* A Python string is held as the sequence of its pieces: its characters   *)
(* wherever the code looks inside the string (platform, category,          *)
(* pricing_basis, confidence, item_name), whole phrases for messages the   *)
(* code only stores.  A number is held in hundredths, so 9.75 is 975.      *)
(***************************************************************************)
EXTENDS Integers, Sequences, FiniteSets, TLC

(* ------------------------------ bounds -------------------------------- *)

\* Largest configured MAX_RETRIES explored (the setting is read from the environment).
MaxRetriesCfg == 3
\* Item scans explored in one behaviour.
MaxScans == 3
\* Item scans explored where every collaborator outcome is explored.
MaxRetryScans == 2
\* Number of fields of the base model answer that one validator input changes.
MaxDeviations == 2
\* Largest number of pricing options offered to the model.
MaxOptions == 2
\* Runs of the removal and price-update tools in one behaviour.
MaxToolRuns == 1

(* ------------------------- program constants -------------------------- *)

PRICECHARTING_MAX_RESULTS == 5

(* ------------------------------ strings ------------------------------- *)

UpperCase == <<"A","B","C","D","E","F","G","H","I","J","K","L","M",
               "N","O","P","Q","R","S","T","U","V","W","X","Y","Z">>
LowerCase == <<"a","b","c","d","e","f","g","h","i","j","k","l","m",
               "n","o","p","q","r","s","t","u","v","w","x","y","z">>
Whitespace == {" ", "\t", "\n"}

\* str.lower() on one character
LowerChar(c) ==
    IF \E i \in 1..26 : UpperCase[i] = c
    THEN LowerCase[CHOOSE i \in 1..26 : UpperCase[i] = c]
    ELSE c

\* str.lower()
lower(q) == [i \in 1..Len(q) |-> LowerChar(q[i])]

\* p in q, for strings
contains(q, p) ==
    \E i \in 1..(Len(q) - Len(p) + 1) : SubSeq(q, i, i + Len(p) - 1) = p

\* str.strip()
strip(q) ==
    LET keep == {i \in 1..Len(q) : q[i] \notin Whitespace}
    IN IF keep = {} THEN <<>>
       ELSE LET lo == CHOOSE i \in keep : \A j \in keep : i <= j
                hi == CHOOSE i \in keep : \A j \in keep : j <= i
            IN SubSeq(q, lo, hi)

\* q.split(sep)[0]
split_first(q, sep) ==
    LET cut == {i \in 1..Len(q) : q[i] = sep}
    IN IF cut = {} THEN q
       ELSE SubSeq(q, 1, (CHOOSE i \in cut : \A j \in cut : i <= j) - 1)

\* str.rstrip()
rstrip(q) ==
    LET keep == {i \in 1..Len(q) : q[i] \notin Whitespace}
    IN IF keep = {} THEN <<>>
       ELSE SubSeq(q, 1, CHOOSE i \in keep : \A j \in keep : j <= i)

\* any(p in q for p in keywords)
any_in(keywords, q) == \E k \in 1..Len(keywords) : contains(q, keywords[k])

cib_mandatory_platforms ==
    << <<"p", "l", "a", "y", "s", "t", "a", "t", "i", "o", "n">>,
       <<"p", "s", "1">>,
       <<"p", "s", "2">>,
       <<"p", "s", "3">>,
       <<"p", "s", "4">>,
       <<"p", "s", "5">>,
       <<"x", "b", "o", "x">>,
       <<"x", "b", "o", "x", " ", "3", "6", "0">>,
       <<"x", "b", "o", "x", " ", "o", "n", "e">>,
       <<"x", "b", "o", "x", " ", "s", "e", "r", "i", "e", "s">>,
       <<"g", "a", "m", "e", "c", "u", "b", "e">>,
       <<"w", "i", "i">>,
       <<"w", "i", "i", " ", "u">>,
       <<"s", "e", "g", "a", " ", "c", "d">>,
       <<"s", "a", "t", "u", "r", "n">>,
       <<"d", "r", "e", "a", "m", "c", "a", "s", "t">>,
       <<"p", "c">>,
       <<"3", "d", "o">>,
       <<"c", "d", "i">>,
       <<"p", "c", " ", "e", "n", "g", "i", "n", "e", " ", "c", "d">>,
       <<"d", "s">>,
       <<"n", "i", "n", "t", "e", "n", "d", "o", " ", "d", "s">>,
       <<"3", "d", "s">>,
       <<"n", "i", "n", "t", "e", "n", "d", "o", " ", "3", "d", "s">>,
       <<"s", "w", "i", "t", "c", "h">>,
       <<"n", "i", "n", "t", "e", "n", "d", "o", " ", "s", "w", "i", "t", "c", "h">>,
       <<"p", "s", " ", "v", "i", "t", "a">>,
       <<"v", "i", "t", "a">> >>

disc_keywords ==
    << <<"p", "l", "a", "y", "s", "t", "a", "t", "i", "o", "n">>,
       <<"x", "b", "o", "x">>,
       <<"g", "a", "m", "e", "c", "u", "b", "e">>,
       <<"d", "r", "e", "a", "m", "c", "a", "s", "t">>,
       <<"s", "a", "t", "u", "r", "n">>,
       <<"s", "e", "g", "a", " ", "c", "d">>,
       <<"w", "i", "i">>,
       <<"3", "d", "o">>,
       <<"c", "d", "i">> >>

COMPLETE_IN_BOX == <<"C", "O", "M", "P", "L", "E", "T", "E", "_", "I", "N", "_", "B", "O", "X">>
LOOSE_CART == <<"L", "O", "O", "S", "E", "_", "C", "A", "R", "T">>
LOOSE_DISC == <<"L", "O", "O", "S", "E", "_", "D", "I", "S", "C">>
NEW_SEALED == <<"N", "E", "W", "_", "S", "E", "A", "L", "E", "D">>
LOOSE_ACCESSORY == <<"L", "O", "O", "S", "E", "_", "A", "C", "C", "E", "S", "S", "O", "R", "Y">>
CONSOLE_ONLY == <<"C", "O", "N", "S", "O", "L", "E", "_", "O", "N", "L", "Y">>
COMPLETE_CONSOLE == <<"C", "O", "M", "P", "L", "E", "T", "E", "_", "C", "O", "N", "S", "O", "L", "E">>
HANDHELD_ONLY == <<"H", "A", "N", "D", "H", "E", "L", "D", "_", "O", "N", "L", "Y">>
COMPLETE_HANDHELD == <<"C", "O", "M", "P", "L", "E", "T", "E", "_", "H", "A", "N", "D", "H", "E", "L", "D">>
USED == <<"U", "S", "E", "D">>
GRADED_SLAB == <<"G", "R", "A", "D", "E", "D", "_", "S", "L", "A", "B">>
HIGH == <<"H", "I", "G", "H">>
MEDIUM == <<"M", "E", "D", "I", "U", "M">>
LOW == <<"L", "O", "W">>
NONE == <<"N", "O", "N", "E">>
video_game_software == <<"v", "i", "d", "e", "o", " ", "g", "a", "m", "e", " ", "s", "o", "f", "t", "w", "a", "r", "e">>
Unidentified_Item == <<"U", "n", "i", "d", "e", "n", "t", "i", "f", "i", "e", "d", " ", "I", "t", "e", "m">>
PlayStation_2 == <<"P", "l", "a", "y", "S", "t", "a", "t", "i", "o", "n", " ", "2">>
Nintendo_Switch == <<"N", "i", "n", "t", "e", "n", "d", "o", " ", "S", "w", "i", "t", "c", "h">>
SNES == <<"S", "N", "E", "S">>
PC_Engine == <<"P", "C", " ", "E", "n", "g", "i", "n", "e">>
PSP == <<"P", "S", "P">>
Video_Game_Software == <<"V", "i", "d", "e", "o", " ", "G", "a", "m", "e", " ", "S", "o", "f", "t", "w", "a", "r", "e">>
DVD == <<"D", "V", "D">>
Books == <<"B", "o", "o", "k", "s">>
Comic_Books == <<"C", "o", "m", "i", "c", " ", "B", "o", "o", "k", "s">>
CIB_or_LOOSE_CART == <<"C", "O", "M", "P", "L", "E", "T", "E", "_", "I", "N", "_", "B", "O", "X", " ", "/", " ", "L", "O", "O", "S", "E", "_", "C", "A", "R", "T">>
LOOSE_DISC_or_USED == <<"L", "O", "O", "S", "E", "_", "D", "I", "S", "C", "/", "U", "S", "E", "D">>
BOGUS == <<"B", "O", "G", "U", "S">>
Mario == <<"M", "a", "r", "i", "o">>
Blank == <<" ", " ">>
Blu_ray == <<"B", "l", "u", "-", "r", "a", "y">>
CD == <<"C", "D">>
Game_Boy_Advance == <<"G", "a", "m", "e", " ", "B", "o", "y", " ", "A", "d", "v", "a", "n", "c", "e">>
Super_Famicom == <<"S", "u", "p", "e", "r", " ", "F", "a", "m", "i", "c", "o", "m">>
GameCube == <<"G", "a", "m", "e", "C", "u", "b", "e">>
PS_Vita == <<"P", "S", " ", "V", "i", "t", "a">>

game_platforms ==
    << <<"x", "b", "o", "x">>, <<"x", "b", "o", "x", " ", "3", "6", "0">>,
       <<"x", "b", "o", "x", " ", "o", "n", "e">>,
       <<"x", "b", "o", "x", " ", "s", "e", "r", "i", "e", "s">>,
       <<"p", "l", "a", "y", "s", "t", "a", "t", "i", "o", "n">>, <<"p", "s", "1">>,
       <<"p", "s", "2">>, <<"p", "s", "3">>, <<"p", "s", "4">>, <<"p", "s", "5">>,
       <<"p", "s", "p">>, <<"p", "s", " ", "v", "i", "t", "a">>, <<"v", "i", "t", "a">>,
       <<"w", "i", "i">>, <<"w", "i", "i", " ", "u">>, <<"s", "w", "i", "t", "c", "h">>,
       <<"n", "e", "s">>, <<"f", "a", "m", "i", "c", "o", "m">>, <<"s", "n", "e", "s">>,
       <<"s", "u", "p", "e", "r", " ", "f", "a", "m", "i", "c", "o", "m">>, <<"n", "6", "4">>,
       <<"g", "a", "m", "e", "c", "u", "b", "e">>, <<"g", "a", "m", "e", " ", "b", "o", "y">>,
       <<"g", "a", "m", "e", "b", "o", "y">>, <<"g", "b", "a">>,
       <<"g", "a", "m", "e", " ", "b", "o", "y", " ", "a", "d", "v", "a", "n", "c", "e">>,
       <<"g", "a", "m", "e", " ", "b", "o", "y", " ", "c", "o", "l", "o", "r">>,
       <<"g", "b", "c">>, <<"d", "s">>, <<"3", "d", "s">>,
       <<"v", "i", "r", "t", "u", "a", "l", " ", "b", "o", "y">>,
       <<"g", "e", "n", "e", "s", "i", "s">>,
       <<"m", "e", "g", "a", " ", "d", "r", "i", "v", "e">>,
       <<"m", "a", "s", "t", "e", "r", " ", "s", "y", "s", "t", "e", "m">>,
       <<"g", "a", "m", "e", " ", "g", "e", "a", "r">>, <<"s", "a", "t", "u", "r", "n">>,
       <<"d", "r", "e", "a", "m", "c", "a", "s", "t">>, <<"s", "e", "g", "a", " ", "c", "d">>,
       <<"s", "e", "g", "a", " ", "3", "2", "x">>, <<"n", "e", "o", " ", "g", "e", "o">>,
       <<"n", "e", "o", "-", "g", "e", "o">>, <<"n", "e", "o", "g", "e", "o">>,
       <<"a", "e", "s">>, <<"m", "v", "s">>,
       <<"n", "e", "o", " ", "g", "e", "o", " ", "p", "o", "c", "k", "e", "t">>,
       <<"w", "o", "n", "d", "e", "r", "s", "w", "a", "n">>,
       <<"t", "u", "r", "b", "o", "g", "r", "a", "f", "x">>,
       <<"p", "c", " ", "e", "n", "g", "i", "n", "e">>,
       <<"p", "c", "-", "e", "n", "g", "i", "n", "e">>, <<"3", "d", "o">>, <<"c", "d", "i">>,
       <<"c", "d", "-", "i">>, <<"a", "t", "a", "r", "i">> >>

game_keywords ==
    << <<"g", "a", "m", "e">>, <<"v", "i", "d", "e", "o", " ", "g", "a", "m", "e">>,
       <<"c", "a", "r", "t", "r", "i", "d", "g", "e">> >>

lego_set_keywords ==
    << <<"b", "r", "i", "c", "k">>, <<"m", "i", "n", "i", "f", "i", "g">>,
       <<"s", "t", "a", "r", " ", "w", "a", "r", "s">>, <<"c", "r", "e", "a", "t", "o", "r">> >>

comic_keywords ==
    << <<"#">>, <<"i", "s", "s", "u", "e">>, <<"m", "a", "r", "v", "e", "l">>,
       <<"d", "c", " ", "c", "o", "m", "i", "c", "s">>,
       <<"i", "m", "a", "g", "e", " ", "c", "o", "m", "i", "c", "s">> >>

card_keywords ==
    << <<"p", "o", "k", "e", "m", "o", "n">>,
       <<"m", "a", "g", "i", "c", " ", "t", "h", "e", " ", "g", "a", "t", "h", "e", "r", "i", "n", "g">>,
       <<"m", "t", "g">>, <<"y", "u", "-", "g", "i", "-", "o", "h">>,
       <<"y", "u", "g", "i", "o", "h">>,
       <<"t", "r", "a", "d", "i", "n", "g", " ", "c", "a", "r", "d">>, <<"t", "c", "g">>,
       <<"b", "a", "s", "e", "b", "a", "l", "l", " ", "c", "a", "r", "d">>,
       <<"s", "p", "o", "r", "t", "s", " ", "c", "a", "r", "d">>, <<"t", "o", "p", "p", "s">>,
       <<"p", "a", "n", "i", "n", "i">>, <<"u", "p", "p", "e", "r", " ", "d", "e", "c", "k">>,
       <<"p", "s", "a">>, <<"b", "e", "c", "k", "e", "t", "t">>,
       <<"g", "r", "a", "d", "e", "d", " ", "c", "a", "r", "d">> >>

dvd_keywords ==
    << <<"d", "v", "d">>,
       <<"w", "i", "d", "e", "s", "c", "r", "e", "e", "n", " ", "e", "d", "i", "t", "i", "o", "n">>,
       <<"f", "u", "l", "l", "s", "c", "r", "e", "e", "n", " ", "e", "d", "i", "t", "i", "o", "n">>,
       <<"s", "p", "e", "c", "i", "a", "l", " ", "e", "d", "i", "t", "i", "o", "n", " ", "d", "v", "d">>,
       <<"c", "o", "l", "l", "e", "c", "t", "o", "r", "'", "s", " ", "e", "d", "i", "t", "i", "o", "n", " ", "d", "v", "d">> >>

bluray_keywords ==
    << <<"b", "l", "u", "-", "r", "a", "y">>, <<"b", "l", "u", " ", "r", "a", "y">>,
       <<"b", "l", "u", "r", "a", "y">>, <<"4", "k", " ", "u", "h", "d">>,
       <<"4", "k", " ", "u", "l", "t", "r", "a", " ", "h", "d">>,
       <<"s", "t", "e", "e", "l", "b", "o", "o", "k">>,
       <<"c", "r", "i", "t", "e", "r", "i", "o", "n", " ", "c", "o", "l", "l", "e", "c", "t", "i", "o", "n">> >>

cd_keywords ==
    << <<"a", "u", "d", "i", "o", " ", "c", "d">>, <<"m", "u", "s", "i", "c", " ", "c", "d">>,
       <<"c", "d", " ", "a", "l", "b", "u", "m">>,
       <<"c", "o", "m", "p", "a", "c", "t", " ", "d", "i", "s", "c">>,
       <<"v", "i", "n", "y", "l">>, <<"l", "p", " ", "r", "e", "c", "o", "r", "d">>,
       <<"p", "h", "o", "n", "o", "g", "r", "a", "p", "h">> >>

cd_album_keywords ==
    << <<"a", "l", "b", "u", "m">>,
       <<"d", "e", "l", "u", "x", "e", " ", "e", "d", "i", "t", "i", "o", "n">>,
       <<"r", "e", "m", "a", "s", "t", "e", "r", "e", "d">>,
       <<"s", "o", "u", "n", "d", "t", "r", "a", "c", "k">>,
       <<"g", "r", "e", "a", "t", "e", "s", "t", " ", "h", "i", "t", "s">>,
       <<"d", "i", "s", "c", "o", "g", "r", "a", "p", "h", "y">> >>

book_keywords ==
    << <<"h", "a", "r", "d", "c", "o", "v", "e", "r">>,
       <<"p", "a", "p", "e", "r", "b", "a", "c", "k">>,
       <<"h", "a", "r", "d", "b", "a", "c", "k">>,
       <<"s", "o", "f", "t", "c", "o", "v", "e", "r">>, <<"i", "s", "b", "n">>,
       <<"n", "o", "v", "e", "l">>,
       <<"e", "d", "i", "t", "i", "o", "n", " ", "b", "o", "o", "k">>,
       <<"f", "i", "r", "s", "t", " ", "e", "d", "i", "t", "i", "o", "n">>,
       <<"t", "e", "x", "t", "b", "o", "o", "k">>,
       <<"a", "u", "d", "i", "o", "b", "o", "o", "k">>, <<"m", "a", "n", "g", "a">> >>

detect_platforms ==
    << <<"X", "b", "o", "x", " ", "S", "e", "r", "i", "e", "s", " ", "X">>,
       <<"X", "b", "o", "x", " ", "O", "n", "e">>, <<"X", "b", "o", "x", " ", "3", "6", "0">>,
       <<"X", "b", "o", "x">>, <<"P", "S", "5">>, <<"P", "S", "4">>, <<"P", "S", "3">>,
       <<"P", "S", "2">>, <<"P", "S", "1">>, <<"P", "S", "P">>,
       <<"P", "S", " ", "V", "i", "t", "a">>, <<"S", "w", "i", "t", "c", "h">>,
       <<"W", "i", "i", " ", "U">>, <<"W", "i", "i">>,
       <<"G", "a", "m", "e", "C", "u", "b", "e">>, <<"N", "6", "4">>, <<"S", "N", "E", "S">>,
       <<"N", "E", "S">>, <<"V", "i", "r", "t", "u", "a", "l", " ", "B", "o", "y">>,
       <<"G", "a", "m", "e", " ", "B", "o", "y", " ", "A", "d", "v", "a", "n", "c", "e">>,
       <<"G", "a", "m", "e", " ", "B", "o", "y", " ", "C", "o", "l", "o", "r">>,
       <<"G", "a", "m", "e", " ", "B", "o", "y">>,
       <<"N", "i", "n", "t", "e", "n", "d", "o", " ", "3", "D", "S">>,
       <<"N", "i", "n", "t", "e", "n", "d", "o", " ", "D", "S">>,
       <<"G", "e", "n", "e", "s", "i", "s">>,
       <<"S", "e", "g", "a", " ", "M", "a", "s", "t", "e", "r", " ", "S", "y", "s", "t", "e", "m">>,
       <<"G", "a", "m", "e", " ", "G", "e", "a", "r">>,
       <<"S", "e", "g", "a", " ", "S", "a", "t", "u", "r", "n">>,
       <<"S", "e", "g", "a", " ", "D", "r", "e", "a", "m", "c", "a", "s", "t">>,
       <<"S", "e", "g", "a", " ", "C", "D">>, <<"S", "e", "g", "a", " ", "3", "2", "X">>,
       <<"N", "e", "o", " ", "G", "e", "o", " ", "A", "E", "S">>,
       <<"N", "e", "o", " ", "G", "e", "o", " ", "M", "V", "S">>,
       <<"N", "e", "o", " ", "G", "e", "o", " ", "P", "o", "c", "k", "e", "t", " ", "C", "o", "l", "o", "r">>,
       <<"N", "e", "o", " ", "G", "e", "o", " ", "P", "o", "c", "k", "e", "t">>,
       <<"W", "o", "n", "d", "e", "r", "S", "w", "a", "n", " ", "C", "o", "l", "o", "r">>,
       <<"W", "o", "n", "d", "e", "r", "S", "w", "a", "n">>,
       <<"T", "u", "r", "b", "o", "G", "r", "a", "f", "x", "-", "1", "6">>,
       <<"P", "C", " ", "E", "n", "g", "i", "n", "e">>, <<"3", "D", "O">>, <<"C", "D", "i">>,
       <<"A", "t", "a", "r", "i", " ", "2", "6", "0", "0">>,
       <<"A", "t", "a", "r", "i", " ", "7", "8", "0", "0">>,
       <<"A", "t", "a", "r", "i", " ", "J", "a", "g", "u", "a", "r">>,
       <<"A", "t", "a", "r", "i", " ", "L", "y", "n", "x">> >>

kw_lego == <<"l", "e", "g", "o">>
kw_set == <<"s", "e", "t">>
kw_comic == <<"c", "o", "m", "i", "c">>
kw_cd == <<"c", "d">>
kw_book == <<"b", "o", "o", "k">>
Title_game == <<"S", "u", "p", "e", "r", " ", "M", "a", "r", "i", "o", " ", "W", "o", "r", "l", "d", " ", "S", "N", "E", "S">>
Title_dvd == <<"T", "h", "e", " ", "M", "a", "t", "r", "i", "x", " ", "D", "V", "D">>
Title_vase == <<"G", "l", "a", "s", "s", " ", "V", "a", "s", "e">>
Title_lego_comic == <<"L", "E", "G", "O", " ", "B", "a", "t", "m", "a", "n", " ", "C", "o", "m", "i", "c", " ", "#", "4">>
LEGO == <<"L", "E", "G", "O">>
Trading_Cards == <<"T", "r", "a", "d", "i", "n", "g", " ", "C", "a", "r", "d", "s">>


valid_pricing ==
    << COMPLETE_IN_BOX, LOOSE_CART, LOOSE_DISC, NEW_SEALED, LOOSE_ACCESSORY,
       CONSOLE_ONLY, COMPLETE_CONSOLE, HANDHELD_ONLY, COMPLETE_HANDHELD, USED >>
graded_valid_pricing == Append(valid_pricing, GRADED_SLAB)
valid_confidence == << HIGH, MEDIUM, LOW >>

(* --------------------------- JSON values ------------------------------ *)

\* A JSON value as json.loads returns it, or the absence of the key.
\* t: absent | null | str | int | float | bool | list; s: the pieces of a string
\* or the elements of a list; n: a number in hundredths (a bool: 100 or 0).
Absent == [t |-> "absent", s |-> <<>>, n |-> 0]
Null == [t |-> "null", s |-> <<>>, n |-> 0]
StrV(q) == [t |-> "str", s |-> q, n |-> 0]
IntV(k) == [t |-> "int", s |-> <<>>, n |-> 100 * k]
FloatV(h) == [t |-> "float", s |-> <<>>, n |-> h]
BoolV(b) == [t |-> "bool", s |-> <<>>, n |-> IF b THEN 100 ELSE 0]
ListV(q) == [t |-> "list", s |-> q, n |-> 0]

\* f in data
has(v) == v.t # "absent"
\* data.get(f) is not None
not_none(v) == v.t \notin {"absent", "null"}
\* bool(data.get(f))
truthy(v) ==
    CASE v.t \in {"absent", "null"} -> FALSE
      [] v.t \in {"str", "list"} -> Len(v.s) > 0
      [] OTHER -> v.n # 0
\* isinstance(x, (int, float)): bool is a subclass of int
is_number(v) == v.t \in {"int", "float", "bool"}
\* isinstance(x, int)
is_int(v) == v.t \in {"int", "bool"}
\* x in [list of strings]
in_list(v, l) == v.t = "str" /\ \E i \in 1..Len(l) : l[i] = v.s
\* str(x) of a number held in hundredths: "13" for an int, "9.8" or "9.75" for a float
number_text(v) ==
    LET a == IF v.n >= 0 THEN v.n ELSE -v.n
        whole == (IF v.n < 0 THEN <<"-">> ELSE <<>>) \o <<ToString(a \div 100)>>
        frac == a % 100
    IN IF v.t = "int" THEN whole
       ELSE IF frac % 10 = 0 THEN whole \o <<".", ToString(frac \div 10)>>
       ELSE whole \o <<".", ToString(frac \div 10), ToString(frac % 10)>>
\* str(x) for a value that is not a string
py_str(v) ==
    CASE v.t \in {"int", "float"} -> StrV(number_text(v))
      [] v.t = "bool" -> StrV(<<IF v.n = 100 THEN "True" ELSE "False">>)
      [] OTHER -> StrV(<<"[">> \o v.s \o <<"]">>)
\* int(x) for a number: truncation toward zero
py_int(v) == IntV(IF v.n >= 0 THEN v.n \div 100 ELSE -((-v.n) \div 100))

(* ------------------------- validator messages ------------------------- *)

reason_null_basis == <<"LLM could not determine condition - please verify">>
reason_uncertain == <<"LLM uncertain about condition - please verify">>
reason_no_name == <<"LLM could not identify item name - please review and rename">>
reason_bad_match == <<"LLM provided invalid PriceCharting match - please verify pricing">>
reason_grade_mismatch == <<"Grade mismatch between vision and text analysis">>
reason_platform(original, platform) ==
    <<"LLM set ">> \o original \o <<" but platform '">> \o platform
        \o <<"' defaults to COMPLETE_IN_BOX - please verify">>

(* ------------------------------ validator ----------------------------- *)

\* The validator's progress: the dict it mutates in place and the exception it has
\* raised, if any ("" while none).
Running(data) == [err |-> "", data |-> data]
Raise(st, e) == [st EXCEPT !.err = e]
ok(st) == st.err = ""

\* data['manual_review_recommended'] = True; the reason only when none is set
flag_review(data, reason) ==
    [data EXCEPT !.manual_review_recommended = BoolV(TRUE),
                 !.manual_review_reason =
                     IF truthy(data.manual_review_reason) THEN @ ELSE StrV(reason)]

required_fields ==
    {"item_name", "confidence", "confidence_reason", "estimated_value_usd",
     "price_source", "pricing_basis", "category"}

check_required(st) ==
    IF \E f \in required_fields : ~has(st.data[f])
    THEN Raise(st, "ValueError: Missing required fields")
    ELSE st

check_confidence(st) ==
    IF ~ok(st) THEN st
    ELSE IF in_list(st.data.confidence, valid_confidence) THEN st
    ELSE IF st.data.confidence.t = "null"
         THEN [st EXCEPT !.data.confidence = StrV(LOW)]
         ELSE Raise(st, "ValueError: Invalid confidence")

\* pricing_basis: null default, '/'-separated indecision, membership in the enum
check_pricing_basis(st, default, valid) ==
    IF ~ok(st) THEN st
    ELSE
    LET d1 == IF st.data.pricing_basis.t = "null"
              THEN flag_review([st.data EXCEPT !.pricing_basis = StrV(default)],
                               reason_null_basis)
              ELSE st.data
        pb == d1.pricing_basis
    IN IF pb.t \in {"int", "float", "bool"}
       THEN [err |-> "TypeError: argument is not iterable", data |-> d1]
       ELSE
       LET d2 == IF pb.t = "str" /\ contains(pb.s, <<"/">>)
                 THEN flag_review(
                          [d1 EXCEPT !.pricing_basis = StrV(strip(split_first(pb.s, "/")))],
                          reason_uncertain)
                 ELSE d1
       IN IF in_list(d2.pricing_basis, valid)
          THEN [err |-> "", data |-> d2]
          ELSE [err |-> "ValueError: Invalid pricing_basis", data |-> d2]

\* (data.get(f) or '') for a field the code then lower()s
or_empty(v) == IF truthy(v) THEN v ELSE StrV(<<>>)

\* no platform defaults to complete-in-box
platform_never_cib(data) == FALSE

platform_should_be_cib(data) ==
    LET platform == lower(or_empty(data.platform).s)
        category == lower(or_empty(data.category).s)
        listed == any_in(cib_mandatory_platforms, platform)
    IN IF ~listed /\ category = video_game_software /\ Len(platform) > 0
       THEN any_in(disc_keywords, platform)
       ELSE listed

\* Enforce platform-based condition defaults (general scanner only)
check_platform_policy(st) ==
    IF ~ok(st) THEN st
    ELSE IF or_empty(st.data.platform).t # "str" \/ or_empty(st.data.category).t # "str"
    THEN Raise(st, "AttributeError: no attribute lower")
    ELSE IF platform_should_be_cib(st.data)
            /\ st.data.pricing_basis.s \in {LOOSE_DISC, LOOSE_CART}
    THEN [st EXCEPT !.data =
             flag_review([st.data EXCEPT !.pricing_basis = StrV(COMPLETE_IN_BOX)],
                         reason_platform(st.data.pricing_basis.s,
                                         IF st.data.platform.t = "str"
                                         THEN st.data.platform.s ELSE <<"None">>))]
    ELSE st

numeric_fields == <<"estimated_value_usd", "value_range_min", "value_range_max">>

\* the first numeric field, in the code's order, that is present and unusable (0: none)
first_bad_numeric(data) ==
    LET bad == {i \in 1..3 : has(data[numeric_fields[i]])
                             /\ (~is_number(data[numeric_fields[i]])
                                 \/ data[numeric_fields[i]].n < 0)}
    IN IF bad = {} THEN 0 ELSE CHOOSE i \in bad : \A j \in bad : i <= j

check_numeric(st) ==
    IF ~ok(st) THEN st
    ELSE LET i == first_bad_numeric(st.data)
         IN IF i = 0 THEN st
            ELSE IF ~is_number(st.data[numeric_fields[i]])
            THEN Raise(st, "ValueError: must be number")
            ELSE Raise(st, "ValueError: cannot be negative")

\* data.get(f, 0)
get_or_zero(v) == IF has(v) THEN v.n ELSE 0

\* Auto-fix swapped value ranges; the swap reads both keys
swap_range(st) ==
    IF ~ok(st) THEN st
    ELSE IF get_or_zero(st.data.value_range_min) > get_or_zero(st.data.value_range_max)
    THEN IF ~has(st.data.value_range_min) \/ ~has(st.data.value_range_max)
         THEN Raise(st, "KeyError: value_range")
         ELSE [st EXCEPT !.data.value_range_min = st.data.value_range_max,
                         !.data.value_range_max = st.data.value_range_min]
    ELSE st

bool_fields == {"personal_effect_eligible", "manual_review_recommended"}

check_bools(st) ==
    IF ~ok(st) THEN st
    ELSE IF \E f \in bool_fields : has(st.data[f]) /\ st.data[f].t # "bool"
    THEN Raise(st, "ValueError: must be boolean")
    ELSE st

check_warnings(st) ==
    IF ~ok(st) THEN st
    ELSE IF has(st.data.warnings) /\ st.data.warnings.t # "list"
    THEN Raise(st, "ValueError: warnings must be array")
    ELSE st

\* not data.get('item_name') or not isinstance(..., str) or strip() == ''
name_unusable(v) == ~truthy(v) \/ v.t # "str" \/ strip(v.s) = <<>>

\* general scanner: recovery instead of hard failure
recover_item_name(st) ==
    IF ~ok(st) THEN st
    ELSE IF name_unusable(st.data.item_name)
    THEN [st EXCEPT !.data =
             flag_review([st.data EXCEPT !.item_name = StrV(Unidentified_Item)],
                         reason_no_name)]
    ELSE st

\* graded scanner: an unusable name is rejected
reject_item_name(st) ==
    IF ~ok(st) THEN st
    ELSE IF name_unusable(st.data.item_name)
    THEN Raise(st, "ValueError: item_name cannot be empty or null")
    ELSE st

check_issue_number(st) ==
    IF ~ok(st) THEN st
    ELSE IF not_none(st.data.issue_number) /\ st.data.issue_number.t # "str"
    THEN [st EXCEPT !.data.issue_number = py_str(st.data.issue_number)]
    ELSE st

check_year(st) ==
    IF ~ok(st) THEN st
    ELSE IF ~not_none(st.data.year) THEN st
    ELSE IF ~is_number(st.data.year)
    THEN Raise(st, "ValueError: year must be integer or null")
    ELSE [st EXCEPT !.data.year = py_int(st.data.year)]

check_grade(st) ==
    IF ~ok(st) THEN st
    ELSE IF not_none(st.data.grade) /\ ~is_number(st.data.grade)
    THEN Raise(st, "ValueError: grade must be number or null")
    ELSE st

check_grader(st) ==
    IF ~ok(st) THEN st
    ELSE IF not_none(st.data.grader) /\ st.data.grader.t # "str"
    THEN Raise(st, "ValueError: grader must be string or null")
    ELSE st

check_certification_number(st) ==
    IF ~ok(st) THEN st
    ELSE IF not_none(st.data.certification_number)
            /\ st.data.certification_number.t # "str"
    THEN [st EXCEPT !.data.certification_number = py_str(st.data.certification_number)]
    ELSE st

\* pricecharting_match_used against the number of options offered
check_match_used(st, num_pricecharting_results) ==
    IF ~ok(st) THEN st
    ELSE
    LET max_valid == IF num_pricecharting_results > 0
                     THEN num_pricecharting_results ELSE PRICECHARTING_MAX_RESULTS
        match_value == st.data.pricecharting_match_used
    IN IF ~not_none(match_value) THEN st
       ELSE IF ~is_int(match_value)
       THEN Raise(st, "ValueError: pricecharting_match_used must be integer or null")
       ELSE IF num_pricecharting_results = 0
       THEN [st EXCEPT !.data.pricecharting_match_used = Null,
                       !.data.pricecharting_match_confidence = StrV(NONE)]
       ELSE IF match_value.n < 100 \/ match_value.n > 100 * max_valid
       THEN [st EXCEPT !.data =
                flag_review([st.data EXCEPT !.pricecharting_match_used = Null],
                            reason_bad_match)]
       ELSE st

\* The grades are binary floating-point numbers: of the explored readings (9.5,
\* 9.6, 9.7, 9.75, 9.8, 9.9, 10.0, in hundredths) that are 0.1 apart, these pairs
\* give abs(x - y) = 0.10000000000000142, which is > 0.1; the other pairs 0.1
\* apart give 0.0999999999999996.
tenth_rounds_above == {<<970, 980>>, <<980, 970>>}

\* abs(data['vision_grade'] - data['grade']) > 0.1, on readings in hundredths
grade_gap_exceeds(a, b) ==
    LET diff == IF a >= b THEN a - b ELSE b - a
    IN diff > 10 \/ (diff = 10 /\ <<a, b>> \in tenth_rounds_above)

mismatch_warning == "Grade mismatch: Vision read {vision_grade} but LLM determined {grade}"

\* graded scanner: cross-validate vision grade vs LLM grade
cross_validate_grade(st) ==
    IF ~ok(st) THEN st
    ELSE IF ~(not_none(st.data.vision_grade) /\ not_none(st.data.grade)) THEN st
    ELSE IF ~grade_gap_exceeds(st.data.vision_grade.n, st.data.grade.n) THEN st
    ELSE LET w == IF has(st.data.warnings) THEN st.data.warnings.s ELSE <<>>
         IN [st EXCEPT !.data =
                flag_review([st.data EXCEPT
                                !.warnings = ListV(Append(w, mismatch_warning))],
                            reason_grade_mismatch)]

\* automated_inventory.validate_inventory_item: the checks in the code's order
validate_inventory_item(data, num_pricecharting_results) ==
    LET s1 == check_confidence(check_required(Running(data)))
        s2 == check_platform_policy(check_pricing_basis(s1, USED, valid_pricing))
        s3 == check_warnings(check_bools(swap_range(check_numeric(s2))))
        s4 == check_issue_number(recover_item_name(s3))
        s5 == check_grader(check_grade(check_year(s4)))
    IN check_match_used(s5, num_pricecharting_results)

\* automated_graded_inventory.validate_inventory_item
graded_validate_inventory_item(data, num_pricecharting_results) ==
    LET s1 == check_confidence(check_required(Running(data)))
        s2 == check_pricing_basis(s1, GRADED_SLAB, graded_valid_pricing)
        s3 == check_warnings(check_bools(swap_range(check_numeric(s2))))
        s4 == check_issue_number(reject_item_name(s3))
        s5 == check_certification_number(check_grader(check_grade(check_year(s4))))
    IN cross_validate_grade(check_match_used(s5, num_pricecharting_results))


(* --------------------- the text model's answers ----------------------- *)

\* A well-formed answer of the text model; the answers explored differ from it in
\* at most MaxDeviations fields.
BaseAnswer ==
    [item_name |-> StrV(Mario), confidence |-> StrV(HIGH),
     confidence_reason |-> StrV(<<"clear match">>),
     estimated_value_usd |-> FloatV(2500),
     value_range_min |-> FloatV(1000), value_range_max |-> FloatV(5000),
     price_source |-> StrV(<<"eBay">>), pricing_basis |-> StrV(COMPLETE_IN_BOX),
     category |-> StrV(Video_Game_Software), platform |-> StrV(PlayStation_2),
     personal_effect_eligible |-> BoolV(TRUE),
     manual_review_recommended |-> BoolV(FALSE), manual_review_reason |-> StrV(<<>>),
     warnings |-> ListV(<<>>), issue_number |-> Null, year |-> Null,
     grade |-> Null, grader |-> Null, certification_number |-> Absent,
     pricecharting_match_used |-> Null, pricecharting_match_confidence |-> StrV(NONE),
     vision_grade |-> Absent]

Fields == DOMAIN BaseAnswer

\* a well-formed answer for a film or an album: no platform
MediaAnswer(category) ==
    [BaseAnswer EXCEPT !.category = StrV(category), !.platform = Null]

\* a well-formed answer for a graded comic whose label the vision pass has read
SlabAnswer ==
    [BaseAnswer EXCEPT !.category = StrV(Comic_Books), !.platform = Null,
                       !.pricing_basis = StrV(GRADED_SLAB), !.grader = StrV(<<"CGC">>),
                       !.grade = FloatV(980), !.vision_grade = FloatV(980)]

\* the well-formed answers the explored answers of a scanner start from
WellFormedAnswers(which) ==
    IF which = "general"
    THEN {BaseAnswer} \cup {MediaAnswer(c) : c \in {DVD, Blu_ray, CD}}
    ELSE {BaseAnswer, SlabAnswer}

\* The other values a field may take in an answer.
Alternatives(f) ==
    CASE f = "item_name" ->
           {Absent, Null, StrV(<<>>), StrV(Blank), IntV(5), IntV(0), ListV(<<>>)}
      [] f = "confidence" -> {Null, StrV(BOGUS), StrV(LOW), Absent}
      [] f = "pricing_basis" ->
           {Null, StrV(LOOSE_DISC), StrV(LOOSE_CART), StrV(NEW_SEALED), StrV(USED),
            StrV(LOOSE_ACCESSORY), StrV(GRADED_SLAB), StrV(CIB_or_LOOSE_CART),
            StrV(LOOSE_DISC_or_USED), StrV(BOGUS), IntV(1), ListV(<<>>)}
      [] f = "platform" ->
           {Absent, Null, StrV(SNES), StrV(PC_Engine), StrV(Nintendo_Switch), StrV(PSP),
            StrV(Game_Boy_Advance), StrV(GameCube), StrV(PS_Vita), IntV(5)}
      [] f = "category" -> {StrV(DVD), StrV(Books), StrV(Comic_Books), Null}
      [] f = "estimated_value_usd" -> {Absent, FloatV(-100), StrV(<<"25">>)}
      [] f = "value_range_min" -> {Absent, Null, FloatV(9000), FloatV(-100)}
      [] f = "value_range_max" -> {Absent, FloatV(500), StrV(<<"50">>)}
      [] f = "personal_effect_eligible" -> {Absent, StrV(<<"yes">>)}
      [] f = "manual_review_recommended" -> {Absent, Null, BoolV(TRUE), StrV(<<"yes">>)}
      [] f = "manual_review_reason" -> {Absent, Null, StrV(<<"model's own reason">>)}
      [] f = "warnings" -> {Absent, StrV(<<"none">>), ListV(<<"model warning">>)}
      [] f = "issue_number" -> {IntV(13), StrV(<<"13">>)}
      [] f = "year" -> {IntV(1999), FloatV(199950), StrV(<<"1999">>)}
      [] f = "grade" -> {FloatV(960), FloatV(970), FloatV(975), FloatV(980), StrV(<<"9.8">>)}
      [] f = "grader" -> {StrV(<<"CGC">>), IntV(1)}
      [] f = "certification_number" -> {IntV(123), StrV(<<"123">>)}
      [] f = "pricecharting_match_used" ->
           {IntV(0), IntV(1), IntV(3), FloatV(100), BoolV(TRUE), StrV(<<"1">>)}
      [] f = "vision_grade" -> {FloatV(980), FloatV(990)}
      [] OTHER -> {Absent}


(* ------------------------ utility functions --------------------------- *)

WordChars ==
    {UpperCase[i] : i \in 1..26} \cup {LowerCase[i] : i \in 1..26}
        \cup {"0", "1", "2", "3", "4", "5", "6", "7", "8", "9", "_"}

\* sanitize_filename: spaces to underscores, then every character that is not a
\* word character or a hyphen is dropped
sanitize_filename(q) ==
    LET u == [i \in 1..Len(q) |-> IF q[i] = " " THEN "_" ELSE q[i]]
    IN SelectSeq(u, LAMBDA c : c \in WordChars \cup {"-"})

(* ------------------------ category detection -------------------------- *)

\* What reverse_image_search returned: whether visual_matches is non-empty and
\* the title of its first entry.
NoMatches == [matches |-> FALSE, title |-> <<>>]
Matches(title) == [matches |-> TRUE, title |-> title]

is_game(m) == any_in(game_platforms, m) \/ any_in(game_keywords, m)
is_lego(m) == contains(m, kw_lego) \/ (contains(m, kw_set) /\ any_in(lego_set_keywords, m))
is_comic(m) == contains(m, kw_comic) \/ any_in(comic_keywords, m)
is_card(m) == any_in(card_keywords, m)
is_dvd(m) == any_in(dvd_keywords, m)
is_bluray(m) == any_in(bluray_keywords, m)
is_cd(m) == any_in(cd_keywords, m) \/ (contains(m, kw_cd) /\ any_in(cd_album_keywords, m))
is_book(m) == any_in(book_keywords, m) \/ (contains(m, kw_book) /\ ~is_comic(m))

\* the first platform of the detection list named in the title, or none
detect_platform(m) ==
    LET hits == {i \in 1..Len(detect_platforms) : contains(m, lower(detect_platforms[i]))}
    IN IF hits = {} THEN <<>>
       ELSE detect_platforms[CHOOSE i \in hits : \A j \in hits : i <= j]

NoCheck == [check |-> FALSE, name |-> <<>>, category |-> <<>>, platform |-> <<>>]

\* the categories told apart by the first test that matches, DVD tested before Blu-ray
should_check_pricecharting_dvd_first(api_key, google_results) ==
    IF ~api_key \/ ~google_results.matches THEN NoCheck
    ELSE
    LET first_match == lower(google_results.title)
    IN IF ~(is_game(first_match) \/ is_lego(first_match) \/ is_comic(first_match)
            \/ is_card(first_match) \/ is_dvd(first_match) \/ is_bluray(first_match)
            \/ is_cd(first_match) \/ is_book(first_match))
       THEN NoCheck
       ELSE [check |-> TRUE,
             name |-> strip(split_first(google_results.title, "-")),
             category |->
                 IF is_game(first_match) THEN Video_Game_Software
                 ELSE IF is_lego(first_match) THEN LEGO
                 ELSE IF is_comic(first_match) THEN Comic_Books
                 ELSE IF is_card(first_match) THEN Trading_Cards
                 ELSE IF is_dvd(first_match) THEN DVD
                 ELSE IF is_bluray(first_match) THEN Blu_ray
                 ELSE IF is_cd(first_match) THEN CD
                 ELSE Books,
             platform |-> IF is_game(first_match) THEN detect_platform(first_match)
                          ELSE <<>>]

\* should_check_pricecharting: (should_check, potential_name, category, platform);
\* an empty category or platform stands for None
should_check_pricecharting(api_key, google_results) ==
    IF ~api_key \/ ~google_results.matches THEN NoCheck
    ELSE
    LET first_match == lower(google_results.title)
    IN IF ~(is_game(first_match) \/ is_lego(first_match) \/ is_comic(first_match)
            \/ is_card(first_match) \/ is_dvd(first_match) \/ is_bluray(first_match)
            \/ is_cd(first_match) \/ is_book(first_match))
       THEN NoCheck
       ELSE [check |-> TRUE,
             name |-> strip(split_first(google_results.title, "-")),
             category |->
                 IF is_game(first_match) THEN Video_Game_Software
                 ELSE IF is_lego(first_match) THEN LEGO
                 ELSE IF is_comic(first_match) THEN Comic_Books
                 ELSE IF is_card(first_match) THEN Trading_Cards
                 ELSE IF is_bluray(first_match) THEN Blu_ray
                 ELSE IF is_dvd(first_match) THEN DVD
                 ELSE IF is_cd(first_match) THEN CD
                 ELSE Books,
             platform |-> IF is_game(first_match) THEN detect_platform(first_match)
                          ELSE <<>>]

(* --------------------------- pricing lookup --------------------------- *)

\* One PricingCandidate: its price bases in hundredths, 0 where the provider gave none.
Candidate(loose, cib, new, used) ==
    [loose_price |-> loose, cib_price |-> cib, new_price |-> new, used_price |-> used]

\* The candidates the provider has for an item, best match first.
ProviderCandidates ==
    << Candidate(1200, 2400, 6000, 0), Candidate(0, 0, 0, 900), Candidate(0, 0, 0, 0),
       Candidate(1500, 0, 0, 0), Candidate(0, 3000, 0, 0), Candidate(0, 0, 7000, 0) >>

\* The ways a lookup ends without an answer: the search gives a non-success status,
\* no products, a timeout, no connection, or a detail call raises.
PricingFailureKinds == {"http_error", "no_products", "timeout", "connection", "detail_error"}

\* What the provider does with one lookup: the products its search returns, or no
\* usable answer.
PricingOutcomes(max_candidates) ==
    {[kind |-> k, answered |-> FALSE, products |-> 0] : k \in PricingFailureKinds}
        \cup {[kind |-> "ok", answered |-> TRUE, products |-> k] : k \in 1..max_candidates}

query_pricecharting_untruncated(api_key, outcome) ==
    IF ~api_key \/ ~outcome.answered THEN <<>>
    ELSE SubSeq(ProviderCandidates, 1, outcome.products)

\* query_pricecharting: details of the first PRICECHARTING_MAX_RESULTS products, or
\* None (the empty sequence) when there is nothing to return
query_pricecharting(api_key, outcome) ==
    IF ~api_key \/ ~outcome.answered THEN <<>>
    ELSE LET k == IF outcome.products < PRICECHARTING_MAX_RESULTS
                  THEN outcome.products ELSE PRICECHARTING_MAX_RESULTS
         IN SubSeq(ProviderCandidates, 1, k)

(* ----------------------------- text model ---------------------------- *)

\* What the POST to the text model yields.  kind: timeout | connection | http_error
\* | empty | unparsable (no repair strategy recovers an object) | repairable (an
\* object only after sanitize_llm_json and the repair strategies) | json.
Response(kind, data) == [kind |-> kind, data |-> data]
NetworkKinds == {"timeout", "connection"}

marketplaces ==
    << <<"e","b","a","y">>, <<"a","m","a","z","o","n">>, <<"w","a","l","m","a","r","t">>,
       <<"g","a","m","e","s","t","o","p">>, <<"t","a","r","g","e","t">>,
       <<"b","e","s","t"," ","b","u","y">> >>

\* re.sub(r'\s*[-|]\s*(eBay|Amazon|...).*$', '', name, flags=re.IGNORECASE)
clean_marketplace_suffix(q) ==
    LET l == lower(q)
        rest(i) == strip(SubSeq(l, i + 1, Len(l)))
        hit == {i \in 1..Len(q) :
                  /\ q[i] \in {"-", "|"}
                  /\ \E k \in 1..Len(marketplaces) :
                        /\ Len(rest(i)) >= Len(marketplaces[k])
                        /\ SubSeq(rest(i), 1, Len(marketplaces[k])) = marketplaces[k]}
    IN IF hit = {} THEN q
       ELSE rstrip(SubSeq(q, 1, (CHOOSE i \in hit : \A j \in hit : i <= j) - 1))

\* general scanner: item_name recovered from the top search result when the
\* model gave none
recover_name_from_search(parsed, google_results) ==
    IF ~truthy(parsed.item_name) /\ google_results.matches
    THEN LET fallback_name == clean_marketplace_suffix(strip(google_results.title))
         IN IF Len(fallback_name) > 0
            THEN [parsed EXCEPT !.item_name = StrV(fallback_name)]
            ELSE parsed
    ELSE parsed

\* A GradeReading of the vision pass: grade in hundredths, 0 for null.
NoReading == [grade |-> 0, grading_authority |-> <<>>]
Reading(g, a) == [grade |-> g, grading_authority |-> a]

\* graded scanner: inject vision grade for cross-validation
inject_vision_grade(parsed, vision_grade_info) ==
    IF vision_grade_info.grade # 0
    THEN [parsed EXCEPT !.vision_grade = FloatV(vision_grade_info.grade)]
    ELSE parsed

NoAnalysis == [f \in Fields |-> Absent]
Raised(class, msg) == [exc |-> class, error |-> msg, analysis |-> NoAnalysis]
Returned(analysis) == [exc |-> "", error |-> <<>>, analysis |-> analysis]

\* automated_inventory.analyze_with_llm: every exception leaves as a plain
\* Exception("LLM failed: ...")
analyze_with_llm(google_results, pricecharting_results, response) ==
    CASE response.kind = "timeout" -> Raised("Exception", <<"LLM failed: ", "Timeout">>)
      [] response.kind = "connection" ->
           Raised("Exception", <<"LLM failed: ", "ConnectionError">>)
      [] response.kind = "http_error" ->
           Raised("Exception", <<"LLM failed: ", "Ollama error">>)
      [] response.kind = "empty" ->
           Raised("Exception", <<"LLM failed: ", "Empty LLM response">>)
      [] response.kind = "unparsable" ->
           Raised("Exception", <<"LLM failed: ", "LLM returned invalid JSON">>)
      [] OTHER ->
           LET parsed == recover_name_from_search(response.data, google_results)
               st == validate_inventory_item(parsed, Len(pricecharting_results))
           IN IF ok(st) THEN Returned(st.data)
              ELSE Raised("Exception", <<"LLM failed: ", st.err>>)

\* automated_graded_inventory.analyze_with_llm: json.loads only, no repair
graded_analyze_with_llm(vision_grade_info, pricecharting_results, response) ==
    CASE response.kind = "timeout" -> Raised("Exception", <<"LLM failed: ", "Timeout">>)
      [] response.kind = "connection" ->
           Raised("Exception", <<"LLM failed: ", "ConnectionError">>)
      [] response.kind = "http_error" ->
           Raised("Exception", <<"LLM failed: ", "Ollama error">>)
      [] response.kind = "empty" ->
           Raised("Exception", <<"LLM failed: ", "Empty LLM response">>)
      [] response.kind \in {"unparsable", "repairable"} ->
           Raised("Exception", <<"LLM returned invalid JSON">>)
      [] OTHER ->
           LET parsed == inject_vision_grade(response.data, vision_grade_info)
               st == graded_validate_inventory_item(parsed, Len(pricecharting_results))
           IN IF ok(st) THEN Returned(st.data)
              ELSE Raised("Exception", <<"LLM failed: ", st.err>>)

(* --------------------------- configuration ---------------------------- *)

Variants == {"general", "graded"}

T1 == <<"T", "O", "T", "E", "-", "0", "0", "1">>
T2 == <<"T", "O", "T", "E", "-", "0", "0", "2">>
Totes == {T1, T2}
\* current_tote is None
NoTote == <<>>

(* ------------------------- inventory records -------------------------- *)

\* The name process_item gives the organized image:
\* {item_name_safe}{grade_suffix}_{item_sequence:03d}_{tote_id_safe}{suffix}
NoImage == [name |-> <<>>, sequence |-> 0, tote |-> <<>>]
image_name(which, analysis, item_sequence, tote_id_safe) ==
    LET item_name_safe == sanitize_filename(analysis.item_name.s)
        grade_suffix ==
            IF which = "graded" /\ truthy(analysis.grader) /\ not_none(analysis.grade)
            THEN <<"_">> \o analysis.grader.s \o <<"_">>
                    \o SelectSeq(number_text(analysis.grade), LAMBDA c : c # ".")
            ELSE <<>>
    IN [name |-> item_name_safe \o grade_suffix, sequence |-> item_sequence,
        tote |-> tote_id_safe]

\* An element of the inventory list: a dict with the keys in `keys`, or None.
NoneEntry ==
    [kind |-> "None", keys |-> {}, status |-> "", tote_id |-> <<>>, item_sequence |-> 0,
     item_name |-> <<>>, image_file |-> NoImage, ai_analysis |-> NoAnalysis,
     pricecharting_data |-> <<>>, vision_grade_info |-> NoReading,
     original_file |-> 0, error |-> <<>>]

success_keys(which) ==
    {"timestamp", "tote_id", "item_sequence", "item_name", "image_file", "image_path",
     "ai_analysis", "pricecharting_data", "status"}
        \cup (IF which = "graded" THEN {"vision_grade_info"} ELSE {})

success_record(which, tote, item_sequence, analysis, pricecharting_results, vision) ==
    [kind |-> "dict", keys |-> success_keys(which), status |-> "success",
     tote_id |-> tote, item_sequence |-> item_sequence,
     item_name |-> analysis.item_name.s,
     image_file |-> image_name(which, analysis, item_sequence, sanitize_filename(tote)),
     ai_analysis |-> analysis, pricecharting_data |-> pricecharting_results,
     vision_grade_info |-> vision, original_file |-> 0, error |-> <<>>]

failed_keys == {"timestamp", "tote_id", "item_sequence", "original_file", "error", "status"}

\* the failed record without the path of the scanned image
failed_record_without_path(tote, item_sequence, image_path, error) ==
    [kind |-> "dict", keys |-> failed_keys \ {"original_file"}, status |-> "failed",
     tote_id |-> tote, item_sequence |-> item_sequence, item_name |-> <<>>,
     image_file |-> NoImage, ai_analysis |-> NoAnalysis, pricecharting_data |-> <<>>,
     vision_grade_info |-> NoReading, original_file |-> 0, error |-> error]

failed_record(tote, item_sequence, image_path, error) ==
    [kind |-> "dict", keys |-> failed_keys, status |-> "failed",
     tote_id |-> tote, item_sequence |-> item_sequence, item_name |-> <<>>,
     image_file |-> NoImage, ai_analysis |-> NoAnalysis, pricecharting_data |-> <<>>,
     vision_grade_info |-> NoReading, original_file |-> image_path, error |-> error]

\* One data row of inventory.csv
csv_row(item) ==
    [tote_id |-> item.tote_id, item_sequence |-> item.item_sequence,
     item_name |-> item.item_name, status |-> item.status]

\* The rows save_inventory writes before item['status'] fails on a None entry
rows_until_none(inv) ==
    LET nones == {i \in 1..Len(inv) : inv[i].kind = "None"}
        last == IF nones = {} THEN Len(inv)
                ELSE (CHOOSE i \in nones : \A j \in nones : i <= j) - 1
    IN [i \in 1..last |-> csv_row(inv[i])]

has_none(inv) == \E i \in 1..Len(inv) : inv[i].kind = "None"

\* the counter is not seeded: every tote scan starts again at 0
max_sequence_unseeded(inv, tote) == 0

\* max(item.get('item_sequence', 0) for item in tote_items), 0 without items
max_sequence(inv, tote) ==
    LET seqs == {inv[i].item_sequence : i \in {j \in 1..Len(inv) : inv[j].tote_id = tote}}
    IN IF seqs = {} THEN 0 ELSE CHOOSE m \in seqs : \A n \in seqs : n <= m

(* ---------------------------- retry policy ---------------------------- *)

\* except (requests.exceptions.Timeout, requests.exceptions.ConnectionError)
is_network_error(class) == class \in {"Timeout", "ConnectionError"}

\* every exception is retried while attempts remain
on_exception_retry_any(class, attempt, max_retries) ==
    IF attempt < max_retries THEN "retry" ELSE "fail"

\* a network-class exception is retried whatever the attempt
on_exception_no_ceiling(class, attempt, max_retries) ==
    IF is_network_error(class) THEN "retry" ELSE "fail"

\* what process_item does with an exception of this class in attempt `attempt`
on_exception(class, attempt, max_retries) ==
    IF is_network_error(class) /\ attempt < max_retries THEN "retry" ELSE "fail"

\* wait = 2 ** attempt
backoff(attempt) == 2 ^ attempt

\* where the handler thread can be: outside on_created, in one of the calls of
\* process_item, in time.sleep, back in on_created with the result, or dead
Stages == {"vision", "search", "pricing", "analyze"}
Positions == Stages \cup {"idle", "sleep", "returned", "crashed"}

\* the stage a new attempt starts with
first_stage(which) == IF which = "graded" THEN "vision" ELSE "search"

(* ------------------------------- state -------------------------------- *)

VARIABLES
    variant,        \* which scanner script runs: general | graded
    MAX_RETRIES,    \* the configured attempt ceiling
    api_key,        \* whether PRICECHARTING_API_KEY is set
    current_tote,   \* InventoryScanner.current_tote (its tote_id), NoTote for None
    item_sequence,  \* InventoryScanner.item_sequence
    inventory,      \* InventoryScanner.inventory
    pc,             \* where the scanner's handler thread is
    attempt,        \* process_item's loop variable
    image_path,     \* the scanned file process_item works on
    vision_grade_info,      \* process_item's local
    search_results,         \* process_item's local
    pricecharting_results,  \* process_item's local
    last_call,      \* the last collaborator called for this item and what it did
    calls,          \* collaborator calls made for this item
    slept,          \* the time.sleep calls made for this item
    result,         \* what process_item returned
    scans,          \* item images scanned so far (the next one is file scans + 1)
    scan_dir,       \* scanned files still in SCAN_DIR
    organized,      \* image files in ORGANIZED_DIR
    inventory_json, \* inventory.json: whether it exists and its list
    inventory_csv,  \* the data rows of inventory.csv
    backups,        \* the files in BACKUP_DIR, oldest first
    rm_pc, rm_inventory, rm_target,     \* remove_item: position and locals
    up_pc, up_inventory, up_args,       \* update_inventory: position and locals
    tool_runs,      \* runs of the two tools so far
    v_base,         \* the well-formed answer the explored answer departs from
    v_data,         \* the parsed answer handed to validate_inventory_item
    v_n,            \* its num_pricecharting_results
    v_out,          \* the validator's outcome, or NotRun
    fn_in,          \* a function called on its own: which one, and its arguments
    fn_out,         \* what it returned, once called
    seal_tracking,  \* zpl_labels/seal_tracking.json: the seal of every tote
    as_pc, as_tracking, as_args, as_result,     \* assign_seal: position, locals, return
    bk_pc, bk_tracking, bk_unassigned           \* bulk_assign: position and locals

config == <<variant, MAX_RETRIES, api_key>>
scanner == <<current_tote, item_sequence, inventory>>
locals == <<attempt, image_path, vision_grade_info, search_results,
            pricecharting_results, last_call, calls, slept, result>>
files == <<scan_dir, organized>>
disk == <<inventory_json, inventory_csv, backups>>
remover == <<rm_pc, rm_inventory, rm_target>>
updater == <<up_pc, up_inventory, up_args>>
seals == <<seal_tracking, as_pc, as_tracking, as_args, as_result,
           bk_pc, bk_tracking, bk_unassigned>>
harness == <<v_base, v_data, v_n, v_out, fn_in, fn_out, seals>>
vars == <<config, scanner, pc, locals, scans, files, disk, remover, updater,
          tool_runs, harness>>

NotRun == [err |-> "not run", data |-> BaseAnswer]
\* the totes labels were generated for, in the order of the tracking file
T3 == <<"T", "O", "T", "E", "-", "0", "0", "3">>
tote_ids == <<T1, T2, T3>>
LabelledTotes == {tote_ids[i] : i \in 1..Len(tote_ids)}

\* generate_zpl_labels: seal_template = {tote_id: "" for tote_id in tote_ids}
seal_template == [t \in LabelledTotes |-> ""]

NoInput == [fn |-> "", text |-> <<>>, opt |-> ""]
NotApplied == [done |-> FALSE, val |-> <<>>]
NoCall == [stage |-> "", kind |-> "", exc |-> ""]
NoCalls == [search |-> 0, llm |-> 0, vision |-> 0, pricing |-> 0]

\* The state after InventoryScanner.__init__ on an empty ORGANIZED_DIR.
InitWith(variants, retries, keys) ==
    /\ variant \in variants
    /\ MAX_RETRIES \in retries
    /\ api_key \in keys
    /\ current_tote = NoTote
    /\ item_sequence = 0
    /\ inventory = <<>>
    /\ pc = "idle"
    /\ attempt = 0
    /\ image_path = 0
    /\ vision_grade_info = NoReading
    /\ search_results = NoMatches
    /\ pricecharting_results = <<>>
    /\ last_call = NoCall
    /\ calls = NoCalls
    /\ slept = <<>>
    /\ result = NoneEntry
    /\ scans = 0
    /\ scan_dir = {}
    /\ organized = {}
    /\ inventory_json = [exists |-> FALSE, items |-> <<>>]
    /\ inventory_csv = <<>>
    /\ backups = <<>>
    /\ rm_pc = "idle"
    /\ rm_inventory = <<>>
    /\ rm_target = [tote_id |-> NoTote, sequence |-> 0]
    /\ up_pc = "idle"
    /\ up_inventory = <<>>
    /\ up_args = [dry_run |-> FALSE, new_only |-> FALSE]
    /\ tool_runs = 0
    /\ v_out = NotRun
    /\ seal_tracking = seal_template
    /\ as_pc = "idle"
    /\ as_tracking = seal_template
    /\ as_args = [tote_id |-> NoTote, seal_number |-> ""]
    /\ as_result = "None"
    /\ bk_pc = "idle"
    /\ bk_tracking = seal_template
    /\ bk_unassigned = <<>>

(* --------------------------- scanner actions -------------------------- *)

\* on_created for a file that is a directory or has no supported suffix
UnsupportedFile ==
    /\ pc = "idle"
    /\ UNCHANGED vars

\* on_created for a tote marker: the tote becomes current and the counter is
\* seeded from the records of that tote; item.get fails on a None entry
ToteScan(tote) ==
    /\ pc = "idle"
    /\ current_tote' = tote
    /\ IF has_none(inventory)
       THEN pc' = "crashed" /\ UNCHANGED item_sequence
       ELSE pc' = "idle" /\ item_sequence' = max_sequence(inventory, tote)
    /\ UNCHANGED <<config, inventory, locals, scans, files, disk, remover, updater,
                   tool_runs, harness>>

\* ItemScan without the early return of on_created when no tote is selected
ItemScan_without_tote_check(limit) ==
    /\ pc = "idle"
    /\ scans < limit
    /\ scans' = scans + 1
    /\ scan_dir' = scan_dir \cup {scans + 1}
    /\ item_sequence' = item_sequence + 1
    /\ image_path' = scans + 1
    /\ vision_grade_info' = NoReading
    /\ search_results' = NoMatches
    /\ pricecharting_results' = <<>>
    /\ last_call' = NoCall
    /\ calls' = NoCalls
    /\ slept' = <<>>
    /\ IF MAX_RETRIES >= 1
       THEN attempt' = 1 /\ pc' = first_stage(variant) /\ result' = NoneEntry
       ELSE attempt' = 0 /\ pc' = "returned" /\ result' = NoneEntry
    /\ UNCHANGED <<config, current_tote, inventory, organized, disk, remover, updater,
                   tool_runs, harness>>

\* on_created for an item image: ignored without a tote, else the counter is
\* advanced and process_item entered (its loop body runs MAX_RETRIES times at most);
\* `limit` bounds the item images of one behaviour
ItemScan(limit) ==
    /\ pc = "idle"
    /\ scans < limit
    /\ scans' = scans + 1
    /\ scan_dir' = scan_dir \cup {scans + 1}
    /\ IF current_tote = NoTote
       THEN UNCHANGED <<item_sequence, pc, locals>>
       ELSE /\ item_sequence' = item_sequence + 1
            /\ image_path' = scans + 1
            /\ vision_grade_info' = NoReading
            /\ search_results' = NoMatches
            /\ pricecharting_results' = <<>>
            /\ last_call' = NoCall
            /\ calls' = NoCalls
            /\ slept' = <<>>
            /\ IF MAX_RETRIES >= 1
               THEN attempt' = 1 /\ pc' = first_stage(variant) /\ result' = NoneEntry
               ELSE attempt' = 0 /\ pc' = "returned" /\ result' = NoneEntry
    /\ UNCHANGED <<config, current_tote, inventory, organized, disk, remover, updater,
                   tool_runs, harness>>

\* process_item's except clauses, for an exception of `class` with text `error`
\* raised by the call `stage` whose collaborator did `kind`
Except(stage, kind, class, error) ==
    /\ last_call' = [stage |-> stage, kind |-> kind, exc |-> class]
    /\ IF on_exception(class, attempt, MAX_RETRIES) = "retry"
       THEN /\ pc' = "sleep"
            /\ slept' = Append(slept, backoff(attempt))
            /\ UNCHANGED result
       ELSE /\ pc' = "returned"
            /\ result' = failed_record(current_tote, item_sequence, image_path, error)
            /\ UNCHANGED slept

\* the call `stage` returned and the attempt goes on with `next`
Proceed(stage, kind, next) ==
    /\ last_call' = [stage |-> stage, kind |-> kind, exc |-> ""]
    /\ pc' = next
    /\ UNCHANGED <<slept, result>>

\* graded scanner, pass 1: extract_grade_from_image.  The image cannot be opened
\* (downscale_image_to_base64 raises before the try), the call fails or answers
\* nothing usable (all-null reading), or a grade is read.
VisionOutcomes ==
    {[kind |-> "image_error", reading |-> NoReading],
     [kind |-> "no_reading", reading |-> NoReading],
     [kind |-> "read", reading |-> Reading(980, <<"CGC">>)]}

Vision(outcome) ==
    /\ pc = "vision"
    /\ calls' = [calls EXCEPT !.vision = @ + 1]
    /\ IF outcome.kind = "image_error"
       THEN /\ Except("vision", outcome.kind, "Exception", <<"cannot identify image file">>)
            /\ UNCHANGED vision_grade_info
       ELSE /\ vision_grade_info' = outcome.reading
            /\ Proceed("vision", outcome.kind, "search")
    /\ UNCHANGED <<config, scanner, attempt, image_path, search_results,
                   pricecharting_results, scans, files, disk, remover, updater,
                   tool_runs, harness>>

\* What reverse_image_search does: requests raises Timeout or ConnectionError,
\* SerpAPI answers with a non-success status, or the matches come back.
SearchOutcome(kind, results) == [kind |-> kind, results |-> results]

\* reverse_image_search, format_search_results and should_check_pricecharting
Search(outcome) ==
    /\ pc = "search"
    /\ calls' = [calls EXCEPT !.search = @ + 1]
    /\ CASE outcome.kind = "timeout" ->
              /\ Except("search", outcome.kind, "Timeout", <<"Timeout">>)
              /\ UNCHANGED <<search_results, pricecharting_results>>
         [] outcome.kind = "connection" ->
              /\ Except("search", outcome.kind, "ConnectionError", <<"ConnectionError">>)
              /\ UNCHANGED <<search_results, pricecharting_results>>
         [] outcome.kind = "http_error" ->
              /\ Except("search", outcome.kind, "Exception", <<"SerpAPI error">>)
              /\ UNCHANGED <<search_results, pricecharting_results>>
         [] OTHER ->
              /\ search_results' = outcome.results
              /\ pricecharting_results' = <<>>
              /\ Proceed("search", outcome.kind,
                         IF should_check_pricecharting(api_key, outcome.results).check
                         THEN "pricing" ELSE "analyze")
    /\ UNCHANGED <<config, scanner, attempt, image_path, vision_grade_info, scans,
                   files, disk, remover, updater, tool_runs, harness>>

\* query_pricecharting: whatever the provider does, the item goes on to ANALYZE
Pricing(outcome) ==
    /\ pc = "pricing"
    /\ calls' = [calls EXCEPT !.pricing = @ + 1]
    /\ pricecharting_results' = query_pricecharting(api_key, outcome)
    /\ Proceed("pricing", outcome.kind, "analyze")
    /\ UNCHANGED <<config, scanner, attempt, image_path, vision_grade_info,
                   search_results, scans, files, disk, remover, updater, tool_runs,
                   harness>>

analyze(which, google_results, vision, pricing, response) ==
    IF which = "graded" THEN graded_analyze_with_llm(vision, pricing, response)
    ELSE analyze_with_llm(google_results, pricing, response)

\* analyze_with_llm, then autocrop, the move into the tote directory and the
\* success record; shutil.move may raise
Analyze(response, moved) ==
    /\ pc = "analyze"
    /\ calls' = [calls EXCEPT !.llm = @ + 1]
    /\ LET a == analyze(variant, search_results, vision_grade_info,
                        pricecharting_results, response)
           rec == success_record(variant, current_tote, item_sequence, a.analysis,
                                 pricecharting_results, vision_grade_info)
       IN IF a.exc # ""
          THEN Except("analyze", response.kind, a.exc, a.error) /\ UNCHANGED files
          ELSE IF ~moved
          THEN /\ Except("analyze", "move_failed", "Exception", <<"shutil.move failed">>)
               /\ UNCHANGED files
          ELSE /\ last_call' = [stage |-> "analyze", kind |-> response.kind, exc |-> ""]
               /\ pc' = "returned"
               /\ result' = rec
               /\ scan_dir' = scan_dir \ {image_path}
               /\ organized' = organized \cup {rec.image_file}
               /\ UNCHANGED slept
    /\ UNCHANGED <<config, scanner, attempt, image_path, vision_grade_info,
                   search_results, pricecharting_results, scans, disk, remover,
                   updater, tool_runs, harness>>

\* time.sleep(wait) is over: the next attempt starts
Wake ==
    /\ pc = "sleep"
    /\ attempt <= MaxRetriesCfg
    /\ attempt' = attempt + 1
    /\ pc' = first_stage(variant)
    /\ UNCHANGED <<config, scanner, image_path, vision_grade_info, search_results,
                   pricecharting_results, last_call, calls, slept, result, scans,
                   files, disk, remover, updater, tool_runs, harness>>

\* process_item's frame is gone: its locals hold nothing
ProcessItemGone ==
    /\ attempt' = 0
    /\ image_path' = 0
    /\ vision_grade_info' = NoReading
    /\ search_results' = NoMatches
    /\ pricecharting_results' = <<>>
    /\ last_call' = NoCall
    /\ calls' = NoCalls
    /\ slept' = <<>>
    /\ result' = NoneEntry

\* self.inventory.append(result)
append_result(inv, r) == Append(inv, r)

\* on_created after process_item returned: append, then save_inventory (json.dump
\* of the whole list, then the CSV rows; item['status'] fails on a None entry)
AppendAndSave ==
    /\ pc = "returned"
    /\ inventory' = append_result(inventory, result)
    /\ inventory_json' = [exists |-> TRUE, items |-> inventory']
    /\ inventory_csv' = rows_until_none(inventory')
    /\ pc' = IF has_none(inventory') THEN "crashed" ELSE "idle"
    /\ ProcessItemGone
    /\ UNCHANGED <<config, current_tote, item_sequence, scans, files, backups,
                   remover, updater, tool_runs, harness>>

\* the scanner process is stopped and started again: __init__ reads inventory.json
Restart ==
    /\ current_tote' = NoTote
    /\ item_sequence' = 0
    /\ inventory' = IF inventory_json.exists THEN inventory_json.items ELSE <<>>
    /\ pc' = "idle"
    /\ ProcessItemGone
    /\ UNCHANGED <<config, scans, files, disk, remover, updater, tool_runs, harness>>

(* ----------------------------- remove_item ---------------------------- *)

in_tote(inv, tote) == {i \in 1..Len(inv) : inv[i].tote_id = tote}

\* the gap is left open: nothing is renumbered
resequence_tote_skipped(inv, tote) == inv

\* resequence_tote: the records of the tote, stably sorted by item_sequence, are
\* renumbered from 1 (in place: positions in the list do not change)
resequence_tote(inv, tote) ==
    LET before(i, j) == \/ inv[i].item_sequence < inv[j].item_sequence
                        \/ (inv[i].item_sequence = inv[j].item_sequence /\ i < j)
        new_seq(i) == 1 + Cardinality({j \in in_tote(inv, tote) : before(j, i)})
    IN [i \in 1..Len(inv) |->
           IF i \in in_tote(inv, tote) THEN [inv[i] EXCEPT !.item_sequence = new_seq(i)]
           ELSE inv[i]]

\* the list without the records of that tote and sequence number
without_item(inv, tote, sequence) ==
    SelectSeq(inv, LAMBDA item : ~(item.tote_id = tote /\ item.item_sequence = sequence))

\* regenerate_csv: one row per record, successful or failed
regenerate_csv(inv) == [i \in 1..Len(inv) |-> csv_row(inv[i])]

\* remove_item up to the confirmation prompt: the inventory is read and the item
\* looked for; item.get fails on a None entry.  tool_runs counts the runs that get
\* past the lookup.
RemoveLoad(tote, sequence) ==
    /\ rm_pc = "idle"
    /\ tool_runs < MaxToolRuns
    /\ IF /\ inventory_json.exists
          /\ ~has_none(inventory_json.items)
          /\ \E i \in 1..Len(inventory_json.items) :
                /\ inventory_json.items[i].tote_id = tote
                /\ inventory_json.items[i].item_sequence = sequence
       THEN /\ rm_pc' = "confirm"
            /\ rm_inventory' = inventory_json.items
            /\ rm_target' = [tote_id |-> tote, sequence |-> sequence]
            /\ tool_runs' = tool_runs + 1
       ELSE UNCHANGED <<remover, tool_runs>>
    /\ UNCHANGED <<config, scanner, pc, locals, scans, files, disk, updater, harness>>

\* remove_item from the answer to the prompt: backup of the list as loaded, filter,
\* resequence, inventory.json and inventory.csv rewritten
RemoveConfirm(answer) ==
    /\ rm_pc = "confirm"
    /\ rm_pc' = "idle"
    /\ rm_inventory' = <<>>
    /\ rm_target' = [tote_id |-> NoTote, sequence |-> 0]
    /\ IF answer = "y"
       THEN LET kept == without_item(rm_inventory, rm_target.tote_id, rm_target.sequence)
                updated == resequence_tote(kept, rm_target.tote_id)
            IN /\ backups' = Append(backups, [tool |-> "remove", items |-> rm_inventory])
               /\ inventory_json' = [exists |-> TRUE, items |-> updated]
               /\ inventory_csv' = regenerate_csv(updated)
       ELSE UNCHANGED disk
    /\ UNCHANGED <<config, scanner, pc, locals, scans, files, updater, tool_runs, harness>>

(* ------------------------- update_pricecharting ----------------------- *)

eligible_categories ==
    {Video_Game_Software, <<"Video Game Console">>, <<"Video Game Accessory">>,
     LEGO, Comic_Books, Trading_Cards}

\* is_pricecharting_eligible
is_pricecharting_eligible(item) ==
    IF item.status # "success" THEN FALSE
    ELSE item.ai_analysis.category.s \in eligible_categories

\* the filter of update_inventory (no --categories)
needs_update(item, new_only) ==
    /\ is_pricecharting_eligible(item)
    /\ ~(new_only /\ item.pricecharting_data # <<>>)

\* select_best_price: price in hundredths (0 for None), 0-based option index,
\* confidence
select_best_price(item, results) ==
    IF results = <<>>
    THEN [price |-> 0, option |-> 0, confidence |-> NONE]
    ELSE
    LET pricing_basis == item.ai_analysis.pricing_basis.s
        best_match == results[1]
    IN IF pricing_basis = LOOSE_CART /\ best_match.loose_price # 0
       THEN [price |-> best_match.loose_price, option |-> 0, confidence |-> HIGH]
       ELSE IF pricing_basis = COMPLETE_IN_BOX /\ best_match.cib_price # 0
       THEN [price |-> best_match.cib_price, option |-> 0, confidence |-> HIGH]
       ELSE IF pricing_basis = NEW_SEALED /\ best_match.new_price # 0
       THEN [price |-> best_match.new_price, option |-> 0, confidence |-> HIGH]
       ELSE IF best_match.used_price # 0
       THEN [price |-> best_match.used_price, option |-> 0, confidence |-> MEDIUM]
       ELSE IF best_match.loose_price # 0
       THEN [price |-> best_match.loose_price, option |-> 0, confidence |-> MEDIUM]
       ELSE [price |-> 0, option |-> 0, confidence |-> LOW]

\* update_pricecharting.query_pricecharting: the same lookup as the scanner's
updater_query(outcome) ==
    IF ~outcome.answered THEN <<>>
    ELSE LET k == IF outcome.products < PRICECHARTING_MAX_RESULTS
                  THEN outcome.products ELSE PRICECHARTING_MAX_RESULTS
         IN SubSeq(ProviderCandidates, 1, k)

\* the fields update_inventory rewrites in one record
with_price(item, pc_results, best) ==
    [item EXCEPT
        !.keys = @ \cup {"pricecharting_updated_at"},
        !.pricecharting_data = pc_results,
        !.ai_analysis = [@ EXCEPT
            !.estimated_value_usd = FloatV(best.price),
            !.price_source = StrV(<<"PriceCharting (option ">>
                                    \o number_text(IntV(best.option + 1)) \o <<")">>),
            !.pricecharting_match_used = IntV(best.option + 1),
            !.pricecharting_match_confidence = StrV(best.confidence)]]

\* one pass of the update loop over one record
update_item(item, new_only, outcome) ==
    LET pc_results == updater_query(outcome)
        best == select_best_price(item, pc_results)
    IN IF ~needs_update(item, new_only) \/ pc_results = <<>> \/ best.price = 0
       THEN item
       ELSE with_price(item, pc_results, best)

\* update_inventory writes CSV rows for the successful records only
updater_csv(inv) ==
    LET successful == SelectSeq(inv, LAMBDA item : item.status = "success")
    IN [i \in 1..Len(successful) |-> csv_row(successful[i])]

\* update_inventory down to the loop: load, backup unless --dry-run, filter.  The
\* run ends here without the file, on a None entry (after the backup), with
\* nothing to update, and under --dry-run.  tool_runs counts the runs that write.
UpdateLoad(dry_run, new_only) ==
    /\ up_pc = "idle"
    /\ api_key
    /\ tool_runs < MaxToolRuns
    /\ IF ~inventory_json.exists
       THEN UNCHANGED <<updater, backups, tool_runs>>
       ELSE /\ tool_runs' = IF dry_run THEN tool_runs ELSE tool_runs + 1
            /\ backups' = IF dry_run THEN backups
                          ELSE Append(backups, [tool |-> "update",
                                                items |-> inventory_json.items])
            /\ IF \/ has_none(inventory_json.items)
                  \/ dry_run
                  \/ \A i \in 1..Len(inventory_json.items) :
                        ~needs_update(inventory_json.items[i], new_only)
               THEN UNCHANGED updater
               ELSE /\ up_pc' = "loop"
                    /\ up_inventory' = inventory_json.items
                    /\ up_args' = [dry_run |-> dry_run, new_only |-> new_only]
    /\ UNCHANGED <<config, scanner, pc, locals, scans, files, inventory_json,
                   inventory_csv, remover, harness>>

\* the loop and the save: every record to update is looked up (the provider
\* answers all lookups of one run alike), then inventory.json and the CSV are written
UpdateFinish(outcome) ==
    /\ up_pc = "loop"
    /\ up_pc' = "idle"
    /\ up_inventory' = <<>>
    /\ up_args' = [dry_run |-> FALSE, new_only |-> FALSE]
    /\ LET updated == [i \in 1..Len(up_inventory) |->
                          update_item(up_inventory[i], up_args.new_only, outcome)]
       IN /\ inventory_json' = [exists |-> TRUE, items |-> updated]
          /\ inventory_csv' = updater_csv(updated)
    /\ UNCHANGED <<config, scanner, pc, locals, scans, files, backups, remover,
                   tool_runs, harness>>

(* ------------------------- validator in isolation --------------------- *)

validate(which, data, n) ==
    IF which = "general" THEN validate_inventory_item(data, n)
    ELSE graded_validate_inventory_item(data, n)

Deviated(data) == {f \in Fields : data[f] # BaseAnswer[f]}

\* the fields in which the explored answer differs from the one it started as
Changed == {f \in Fields : v_data[f] # v_base[f]}

\* the model's answer differs from the base answer in one more field
Deviate(f, v) ==
    /\ v_out = NotRun
    /\ f \notin Changed
    /\ Cardinality(Changed) < MaxDeviations
    /\ v_data' = [v_data EXCEPT ![f] = v]
    /\ UNCHANGED <<config, scanner, pc, locals, scans, files, disk, remover, updater,
                   tool_runs, v_base, v_n, v_out, fn_in, fn_out, seals>>

\* validate_inventory_item(parsed, num_pricecharting_results=num_pc)
Validate ==
    /\ v_out = NotRun
    /\ v_out' = validate(variant, v_data, v_n)
    /\ UNCHANGED <<config, scanner, pc, locals, scans, files, disk, remover, updater,
                   tool_runs, v_base, v_data, v_n, fn_in, fn_out, seals>>

(* ------------------------------ inputs -------------------------------- *)

\* Answers of the text model fed to the pipeline: well formed, a loose-disc basis
\* the platform policy corrects, no item name, and one the validator rejects.
Answer_loose == [BaseAnswer EXCEPT !.pricing_basis = StrV(LOOSE_DISC)]
Answer_unnamed == [BaseAnswer EXCEPT !.item_name = Null]
Answer_rejected == [BaseAnswer EXCEPT !.confidence = StrV(BOGUS)]
\* a basis the platform policy corrects, then a warnings field that is no list
Answer_corrected_then_rejected ==
    [BaseAnswer EXCEPT !.pricing_basis = StrV(LOOSE_DISC), !.warnings = StrV(<<"none">>)]

AllSearchOutcomes ==
    {SearchOutcome(k, NoMatches) : k \in {"timeout", "connection", "http_error"}}
        \cup {SearchOutcome("ok", r) :
                r \in {NoMatches, Matches(Title_game), Matches(Title_vase)}}

AllResponses ==
    {Response(k, BaseAnswer) :
        k \in {"timeout", "connection", "http_error", "empty", "unparsable", "repairable"}}
        \cup {Response("json", d) :
                d \in {BaseAnswer, Answer_loose, Answer_unnamed, Answer_rejected}}

\* the outcomes explored where the tools run beside the scanner
FewSearchOutcomes ==
    {SearchOutcome("timeout", NoMatches), SearchOutcome("ok", Matches(Title_game))}

FewPricingOutcomes == {o \in PricingOutcomes(1) : o.answered}

FewUpdateOutcomes == {o \in PricingOutcomes(1) : o.kind \in {"ok", "timeout"}}

FewVisionOutcomes == {o \in VisionOutcomes : o.kind = "read"}

FewResponses ==
    {Response("json", BaseAnswer), Response("json", Answer_corrected_then_rejected)}

(* --------------------------- specifications --------------------------- *)

Init ==
    /\ InitWith(Variants, {2}, {TRUE})
    /\ v_base = BaseAnswer /\ v_data = BaseAnswer /\ v_n = 0
    /\ fn_in = NoInput /\ fn_out = NotApplied

\* the scanner with both tools run beside it
Next ==
    \/ UnsupportedFile
    \/ \E t \in Totes : ToteScan(t)
    \/ ItemScan(MaxScans)
    \/ \E o \in FewVisionOutcomes : Vision(o)
    \/ \E o \in FewSearchOutcomes : Search(o)
    \/ \E o \in FewPricingOutcomes : Pricing(o)
    \/ \E r \in FewResponses : Analyze(r, TRUE)
    \/ Wake
    \/ AppendAndSave
    \/ Restart
    \/ \E t \in Totes : \E s \in 1..MaxScans : RemoveLoad(t, s)
    \/ \E answer \in {"y", "n"} : RemoveConfirm(answer)
    \/ \E dry_run \in BOOLEAN : \E new_only \in BOOLEAN : UpdateLoad(dry_run, new_only)
    \/ \E o \in FewUpdateOutcomes : UpdateFinish(o)

Spec == Init /\ [][Next]_vars

InitRetry ==
    /\ InitWith(Variants, 0..MaxRetriesCfg, BOOLEAN)
    /\ v_base = BaseAnswer /\ v_data = BaseAnswer /\ v_n = 0
    /\ fn_in = NoInput /\ fn_out = NotApplied

\* the lookups explored for the scanner alone: every failure, one product, and more
\* products than PRICECHARTING_MAX_RESULTS
RetryPricingOutcomes ==
    {o \in PricingOutcomes(PRICECHARTING_MAX_RESULTS + 1) :
        o.products \in {0, 1, PRICECHARTING_MAX_RESULTS + 1}}

\* the scanner alone, every collaborator doing all it can do
NextRetry ==
    \/ UnsupportedFile
    \/ ToteScan(T1)
    \/ ItemScan(MaxRetryScans)
    \/ \E o \in VisionOutcomes : Vision(o)
    \/ \E o \in AllSearchOutcomes : Search(o)
    \/ \E o \in RetryPricingOutcomes : Pricing(o)
    \/ \E r \in AllResponses : \E moved \in BOOLEAN : Analyze(r, moved)
    \/ Wake
    \/ AppendAndSave
    \/ Restart

SpecRetry == InitRetry /\ [][NextRetry]_vars

\* on_created runs to its end once entered: every collaborator call returns or
\* raises, time.sleep returns, and the handler goes on to its next statement.
Advance(at) == pc = at /\ pc' \in (Positions \ {at})

Fairness == \A at \in Stages \cup {"sleep", "returned"} : WF_pc(Advance(at))

FairSpecRetry == SpecRetry /\ Fairness

InitValidate ==
    /\ InitWith(Variants, {2}, {TRUE})
    /\ v_base \in WellFormedAnswers(variant) /\ v_data = v_base
    /\ v_n \in 0..MaxOptions
    /\ fn_in = NoInput /\ fn_out = NotApplied

NextValidate ==
    \/ \E f \in Fields : \E v \in Alternatives(f) : Deviate(f, v)
    \/ Validate

SpecValidate == InitValidate /\ [][NextValidate]_vars
\* first-ranked titles a reverse image search may return, several of them
\* matching more than one category test
Title_lego_game == <<"L", "E", "G", "O", " ", "S", "t", "a", "r", " ", "W", "a", "r", "s", " ", "V", "i", "d", "e", "o", " ", "G", "a", "m", "e">>
Title_comic == <<"A", "m", "a", "z", "i", "n", "g", " ", "S", "p", "i", "d", "e", "r", "-", "M", "a", "n", " ", "M", "a", "r", "v", "e", "l", " ", "#", "3", "0", "0">>
Title_card == <<"C", "h", "a", "r", "i", "z", "a", "r", "d", " ", "H", "o", "l", "o", " ", "P", "S", "A", " ", "1", "0">>
Title_card_comic == <<"P", "o", "k", "e", "m", "o", "n", " ", "A", "d", "v", "e", "n", "t", "u", "r", "e", "s", " ", "C", "o", "m", "i", "c">>
Title_bluray_dvd == <<"A", "l", "i", "e", "n", " ", "B", "l", "u", "-", "r", "a", "y", " ", "D", "V", "D", " ", "C", "o", "m", "b", "o">>
Title_card_dvd == <<"T", "o", "p", "p", "s", " ", "H", "i", "g", "h", "l", "i", "g", "h", "t", "s", " ", "D", "V", "D">>
Title_cd == <<"A", "b", "b", "e", "y", " ", "R", "o", "a", "d", " ", "C", "D", " ", "A", "l", "b", "u", "m">>
Title_dvd_cd == <<"L", "i", "v", "e", " ", "C", "o", "n", "c", "e", "r", "t", " ", "D", "V", "D", " ", "A", "u", "d", "i", "o", " ", "C", "D">>
Title_book == <<"D", "u", "n", "e", " ", "P", "a", "p", "e", "r", "b", "a", "c", "k", " ", "N", "o", "v", "e", "l">>
Title_comic_book == <<"C", "o", "m", "i", "c", " ", "B", "o", "o", "k", " ", "P", "r", "i", "c", "e", " ", "G", "u", "i", "d", "e">>
Title_cd_book == <<"S", "o", "u", "n", "d", "t", "r", "a", "c", "k", " ", "C", "D", " ", "H", "a", "r", "d", "c", "o", "v", "e", "r">>
Title_set == <<"S", "t", "a", "r", " ", "W", "a", "r", "s", " ", "B", "r", "i", "c", "k", " ", "S", "e", "t">>
Title_lego_dash == <<"L", "E", "G", "O", " ", "C", "i", "t", "y", " ", "-", " ", "F", "i", "r", "e", " ", "T", "r", "u", "c", "k">>
Title_bluray_book == <<"S", "t", "e", "e", "l", "b", "o", "o", "k", " ", "A", "r", "t", "b", "o", "o", "k">>

\* answers of the text model, each of them one JSON object
Doc_string == <<"{", "\"", "a", "\"", ":", " ", "\"", "x", "\"", "}">>
Doc_nested == <<"{", "\"", "a", "\"", ":", " ", "[", "1", ",", " ", "2", "]", ",", " ", "\"", "b", "\"", ":", " ", "{", "\"", "c", "\"", ":", " ", "[", "{", "\"", "d", "\"", ":", " ", "\"", "y", "\"", "}", "]", "}", "}">>
Doc_escaped == <<"{", "\"", "q", "\"", ":", " ", "\"", "s", "a", "y", " ", "\\", "\"", "h", "i", "\\", "\"", "\"", ",", " ", "\"", "n", "\"", ":", " ", "[", "3", "]", "}">>

\* PLATFORM_NORMALIZE: verbose platform name, preferred short form
PLATFORM_NORMALIZE ==
    <<
       <<<<"N", "i", "n", "t", "e", "n", "d", "o", " ", "E", "n", "t", "e", "r", "t", "a", "i", "n", "m", "e", "n", "t", " ", "S", "y", "s", "t", "e", "m">>, <<"N", "E", "S">>>>,
       <<<<"N", "i", "n", "t", "e", "n", "d", "o", " ", "E", "n", "t", "e", "r", "t", "a", "i", "n", "m", "e", "n", "t", " ", "S", "y", "s", "t", "e", "m", " ", "(", "N", "E", "S", ")">>, <<"N", "E", "S">>>>,
       <<<<"S", "u", "p", "e", "r", " ", "N", "i", "n", "t", "e", "n", "d", "o", " ", "E", "n", "t", "e", "r", "t", "a", "i", "n", "m", "e", "n", "t", " ", "S", "y", "s", "t", "e", "m">>, <<"S", "N", "E", "S">>>>,
       <<<<"S", "u", "p", "e", "r", " ", "N", "i", "n", "t", "e", "n", "d", "o", " ", "E", "n", "t", "e", "r", "t", "a", "i", "n", "m", "e", "n", "t", " ", "S", "y", "s", "t", "e", "m", " ", "(", "S", "N", "E", "S", ")">>, <<"S", "N", "E", "S">>>>,
       <<<<"S", "u", "p", "e", "r", " ", "N", "i", "n", "t", "e", "n", "d", "o">>, <<"S", "N", "E", "S">>>>,
       <<<<"N", "i", "n", "t", "e", "n", "d", "o", " ", "6", "4">>, <<"N", "6", "4">>>>,
       <<<<"N", "i", "n", "t", "e", "n", "d", "o", " ", "G", "a", "m", "e", "C", "u", "b", "e">>, <<"G", "a", "m", "e", "C", "u", "b", "e">>>>,
       <<<<"N", "i", "n", "t", "e", "n", "d", "o", " ", "W", "i", "i">>, <<"W", "i", "i">>>>,
       <<<<"N", "i", "n", "t", "e", "n", "d", "o", " ", "W", "i", "i", " ", "U">>, <<"W", "i", "i", " ", "U">>>>,
       <<<<"N", "i", "n", "t", "e", "n", "d", "o", " ", "S", "w", "i", "t", "c", "h">>, <<"S", "w", "i", "t", "c", "h">>>>,
       <<<<"G", "a", "m", "e", " ", "B", "o", "y", " ", "A", "d", "v", "a", "n", "c", "e">>, <<"G", "B", "A">>>>,
       <<<<"G", "a", "m", "e", " ", "B", "o", "y", " ", "C", "o", "l", "o", "r">>, <<"G", "B", "C">>>>,
       <<<<"N", "i", "n", "t", "e", "n", "d", "o", " ", "G", "a", "m", "e", " ", "B", "o", "y">>, <<"G", "B">>>>,
       <<<<"G", "a", "m", "e", " ", "B", "o", "y">>, <<"G", "B">>>>,
       <<<<"N", "i", "n", "t", "e", "n", "d", "o", " ", "D", "S">>, <<"N", "D", "S">>>>,
       <<<<"N", "i", "n", "t", "e", "n", "d", "o", " ", "3", "D", "S">>, <<"3", "D", "S">>>>,
       <<<<"P", "l", "a", "y", "S", "t", "a", "t", "i", "o", "n">>, <<"P", "S", "1">>>>,
       <<<<"S", "o", "n", "y", " ", "P", "l", "a", "y", "S", "t", "a", "t", "i", "o", "n">>, <<"P", "S", "1">>>>,
       <<<<"P", "l", "a", "y", "S", "t", "a", "t", "i", "o", "n", " ", "1">>, <<"P", "S", "1">>>>,
       <<<<"P", "l", "a", "y", "S", "t", "a", "t", "i", "o", "n", " ", "2">>, <<"P", "S", "2">>>>,
       <<<<"P", "l", "a", "y", "S", "t", "a", "t", "i", "o", "n", " ", "3">>, <<"P", "S", "3">>>>,
       <<<<"P", "l", "a", "y", "S", "t", "a", "t", "i", "o", "n", " ", "4">>, <<"P", "S", "4">>>>,
       <<<<"P", "l", "a", "y", "S", "t", "a", "t", "i", "o", "n", " ", "5">>, <<"P", "S", "5">>>>,
       <<<<"P", "l", "a", "y", "S", "t", "a", "t", "i", "o", "n", " ", "P", "o", "r", "t", "a", "b", "l", "e">>, <<"P", "S", "P">>>>,
       <<<<"P", "l", "a", "y", "S", "t", "a", "t", "i", "o", "n", " ", "P", "o", "r", "t", "a", "b", "l", "e", " ", "(", "P", "S", "P", ")">>, <<"P", "S", "P">>>>,
       <<<<"S", "o", "n", "y", " ", "P", "l", "a", "y", "S", "t", "a", "t", "i", "o", "n", " ", "P", "o", "r", "t", "a", "b", "l", "e">>, <<"P", "S", "P">>>>,
       <<<<"P", "l", "a", "y", "S", "t", "a", "t", "i", "o", "n", " ", "V", "i", "t", "a">>, <<"V", "i", "t", "a">>>>,
       <<<<"P", "S", " ", "V", "i", "t", "a">>, <<"V", "i", "t", "a">>>>,
       <<<<"M", "i", "c", "r", "o", "s", "o", "f", "t", " ", "X", "b", "o", "x">>, <<"X", "b", "o", "x">>>>,
       <<<<"X", "b", "o", "x", " ", "S", "e", "r", "i", "e", "s", " ", "X", "|", "S">>, <<"X", "b", "o", "x", " ", "S", "e", "r", "i", "e", "s", " ", "X">>>>,
       <<<<"S", "e", "g", "a", " ", "G", "e", "n", "e", "s", "i", "s">>, <<"G", "e", "n", "e", "s", "i", "s">>>>,
       <<<<"S", "e", "g", "a", " ", "S", "a", "t", "u", "r", "n">>, <<"S", "a", "t", "u", "r", "n">>>>,
       <<<<"S", "e", "g", "a", " ", "D", "r", "e", "a", "m", "c", "a", "s", "t">>, <<"D", "r", "e", "a", "m", "c", "a", "s", "t">>>>,
       <<<<"S", "e", "g", "a", " ", "M", "a", "s", "t", "e", "r", " ", "S", "y", "s", "t", "e", "m">>, <<"S", "M", "S">>>>,
       <<<<"M", "a", "s", "t", "e", "r", " ", "S", "y", "s", "t", "e", "m">>, <<"S", "M", "S">>>>,
       <<<<"S", "e", "g", "a", " ", "3", "2", "X">>, <<"3", "2", "X">>>>,
       <<<<"S", "u", "p", "e", "r", " ", "F", "a", "m", "i", "c", "o", "m">>, <<"S", "F", "C">>>>,
       <<<<"F", "a", "m", "i", "c", "o", "m">>, <<"F", "C">>>>,
       <<<<"P", "C", " ", "E", "n", "g", "i", "n", "e">>, <<"P", "C", "E">>>>,
       <<<<"M", "e", "g", "a", " ", "D", "r", "i", "v", "e">>, <<"M", "D">>>>,
       <<<<"T", "u", "r", "b", "o", "G", "r", "a", "f", "x", "-", "1", "6">>, <<"T", "G", "-", "1", "6">>>>,
       <<<<"P", "S", "X">>, <<"P", "S", "1">>>>,
       <<<<"N", "D", "S">>, <<"N", "D", "S">>>>,
       <<<<"D", "S">>, <<"N", "D", "S">>>> >>

\* _ALL_PLATFORM_NAMES: every known platform string, longest first (names of equal
\* length in one fixed order)
ALL_PLATFORM_NAMES ==
    <<
       <<"S", "u", "p", "e", "r", " ", "N", "i", "n", "t", "e", "n", "d", "o", " ", "E", "n", "t", "e", "r", "t", "a", "i", "n", "m", "e", "n", "t", " ", "S", "y", "s", "t", "e", "m", " ", "(", "S", "N", "E", "S", ")">>,
       <<"N", "i", "n", "t", "e", "n", "d", "o", " ", "E", "n", "t", "e", "r", "t", "a", "i", "n", "m", "e", "n", "t", " ", "S", "y", "s", "t", "e", "m", " ", "(", "N", "E", "S", ")">>,
       <<"S", "u", "p", "e", "r", " ", "N", "i", "n", "t", "e", "n", "d", "o", " ", "E", "n", "t", "e", "r", "t", "a", "i", "n", "m", "e", "n", "t", " ", "S", "y", "s", "t", "e", "m">>,
       <<"N", "i", "n", "t", "e", "n", "d", "o", " ", "E", "n", "t", "e", "r", "t", "a", "i", "n", "m", "e", "n", "t", " ", "S", "y", "s", "t", "e", "m">>,
       <<"P", "l", "a", "y", "S", "t", "a", "t", "i", "o", "n", " ", "P", "o", "r", "t", "a", "b", "l", "e", " ", "(", "P", "S", "P", ")">>,
       <<"S", "o", "n", "y", " ", "P", "l", "a", "y", "S", "t", "a", "t", "i", "o", "n", " ", "P", "o", "r", "t", "a", "b", "l", "e">>,
       <<"P", "l", "a", "y", "S", "t", "a", "t", "i", "o", "n", " ", "P", "o", "r", "t", "a", "b", "l", "e">>,
       <<"S", "e", "g", "a", " ", "M", "a", "s", "t", "e", "r", " ", "S", "y", "s", "t", "e", "m">>,
       <<"N", "i", "n", "t", "e", "n", "d", "o", " ", "G", "a", "m", "e", " ", "B", "o", "y">>,
       <<"N", "i", "n", "t", "e", "n", "d", "o", " ", "G", "a", "m", "e", "C", "u", "b", "e">>,
       <<"G", "a", "m", "e", " ", "B", "o", "y", " ", "A", "d", "v", "a", "n", "c", "e">>,
       <<"P", "l", "a", "y", "S", "t", "a", "t", "i", "o", "n", " ", "V", "i", "t", "a">>,
       <<"S", "o", "n", "y", " ", "P", "l", "a", "y", "S", "t", "a", "t", "i", "o", "n">>,
       <<"N", "i", "n", "t", "e", "n", "d", "o", " ", "S", "w", "i", "t", "c", "h">>,
       <<"X", "b", "o", "x", " ", "S", "e", "r", "i", "e", "s", " ", "X", "|", "S">>,
       <<"G", "a", "m", "e", " ", "B", "o", "y", " ", "C", "o", "l", "o", "r">>,
       <<"M", "i", "c", "r", "o", "s", "o", "f", "t", " ", "X", "b", "o", "x">>,
       <<"N", "i", "n", "t", "e", "n", "d", "o", " ", "W", "i", "i", " ", "U">>,
       <<"S", "e", "g", "a", " ", "D", "r", "e", "a", "m", "c", "a", "s", "t">>,
       <<"S", "u", "p", "e", "r", " ", "N", "i", "n", "t", "e", "n", "d", "o">>,
       <<"M", "a", "s", "t", "e", "r", " ", "S", "y", "s", "t", "e", "m">>,
       <<"P", "l", "a", "y", "S", "t", "a", "t", "i", "o", "n", " ", "1">>,
       <<"P", "l", "a", "y", "S", "t", "a", "t", "i", "o", "n", " ", "2">>,
       <<"P", "l", "a", "y", "S", "t", "a", "t", "i", "o", "n", " ", "3">>,
       <<"P", "l", "a", "y", "S", "t", "a", "t", "i", "o", "n", " ", "4">>,
       <<"P", "l", "a", "y", "S", "t", "a", "t", "i", "o", "n", " ", "5">>,
       <<"S", "u", "p", "e", "r", " ", "F", "a", "m", "i", "c", "o", "m">>,
       <<"T", "u", "r", "b", "o", "G", "r", "a", "f", "x", "-", "1", "6">>,
       <<"X", "b", "o", "x", " ", "S", "e", "r", "i", "e", "s", " ", "X">>,
       <<"N", "i", "n", "t", "e", "n", "d", "o", " ", "3", "D", "S">>,
       <<"N", "i", "n", "t", "e", "n", "d", "o", " ", "W", "i", "i">>,
       <<"S", "e", "g", "a", " ", "G", "e", "n", "e", "s", "i", "s">>,
       <<"N", "i", "n", "t", "e", "n", "d", "o", " ", "6", "4">>,
       <<"N", "i", "n", "t", "e", "n", "d", "o", " ", "D", "S">>,
       <<"P", "l", "a", "y", "S", "t", "a", "t", "i", "o", "n">>,
       <<"S", "e", "g", "a", " ", "S", "a", "t", "u", "r", "n">>,
       <<"A", "t", "a", "r", "i", " ", "2", "6", "0", "0">>,
       <<"A", "t", "a", "r", "i", " ", "7", "8", "0", "0">>,
       <<"M", "e", "g", "a", " ", "D", "r", "i", "v", "e">>,
       <<"D", "r", "e", "a", "m", "c", "a", "s", "t">>,
       <<"P", "C", " ", "E", "n", "g", "i", "n", "e">>,
       <<"G", "a", "m", "e", " ", "B", "o", "y">>,
       <<"G", "a", "m", "e", "C", "u", "b", "e">>,
       <<"S", "e", "g", "a", " ", "3", "2", "X">>,
       <<"X", "b", "o", "x", " ", "3", "6", "0">>,
       <<"X", "b", "o", "x", " ", "O", "n", "e">>,
       <<"F", "a", "m", "i", "c", "o", "m">>,
       <<"G", "e", "n", "e", "s", "i", "s">>,
       <<"P", "S", " ", "V", "i", "t", "a">>,
       <<"S", "e", "g", "a", " ", "C", "D">>,
       <<"S", "a", "t", "u", "r", "n">>,
       <<"S", "w", "i", "t", "c", "h">>,
       <<"T", "G", "-", "1", "6">>,
       <<"W", "i", "i", " ", "U">>,
       <<"S", "N", "E", "S">>,
       <<"V", "i", "t", "a">>,
       <<"X", "b", "o", "x">>,
       <<"3", "2", "X">>,
       <<"3", "D", "S">>,
       <<"G", "B", "A">>,
       <<"G", "B", "C">>,
       <<"N", "6", "4">>,
       <<"N", "D", "S">>,
       <<"N", "E", "S">>,
       <<"P", "C", "E">>,
       <<"P", "S", "1">>,
       <<"P", "S", "2">>,
       <<"P", "S", "3">>,
       <<"P", "S", "4">>,
       <<"P", "S", "5">>,
       <<"P", "S", "P">>,
       <<"P", "S", "X">>,
       <<"S", "F", "C">>,
       <<"S", "M", "S">>,
       <<"W", "i", "i">>,
       <<"D", "S">>,
       <<"F", "C">>,
       <<"G", "B">>,
       <<"M", "D">> >>

\* platform strings as the text model writes them
PlatformStrings ==
    {
       <<"S", "u", "p", "e", "r", " ", "F", "a", "m", "i", "c", "o", "m", " ", "S", "N", "E", "S">>,
       <<"S", "N", "E", "S", " ", "S", "u", "p", "e", "r", " ", "F", "a", "m", "i", "c", "o", "m">>,
       <<"F", "a", "m", "i", "c", "o", "m", " ", "N", "E", "S">>,
       <<"N", "E", "S", " ", "/", " ", "F", "a", "m", "i", "c", "o", "m">>,
       <<"P", "C", " ", "E", "n", "g", "i", "n", "e", " ", "T", "u", "r", "b", "o", "G", "r", "a", "f", "x", "-", "1", "6">>,
       <<"T", "G", "-", "1", "6", " ", "P", "C", " ", "E", "n", "g", "i", "n", "e">>,
       <<"M", "e", "g", "a", " ", "D", "r", "i", "v", "e", " ", "G", "e", "n", "e", "s", "i", "s">>,
       <<"S", "e", "g", "a", " ", "G", "e", "n", "e", "s", "i", "s", " ", "M", "e", "g", "a", " ", "D", "r", "i", "v", "e">>,
       <<"S", "u", "p", "e", "r", " ", "F", "a", "m", "i", "c", "o", "m">>,
       <<"S", "N", "E", "S">>,
       <<"S", "e", "g", "a", " ", "G", "e", "n", "e", "s", "i", "s">>,
       <<"N", "i", "n", "t", "e", "n", "d", "o", " ", "S", "w", "i", "t", "c", "h">>,
       <<"S", "w", "i", "t", "c", "h", " ", "L", "i", "t", "e">>,
       <<"A", "m", "i", "g", "a">>,
       <<"s", "u", "p", "e", "r", " ", "f", "a", "m", "i", "c", "o", "m", " ", "s", "n", "e", "s">> }

\* QR payloads, each with what json.loads makes of it: a dict (and its tote_id
\* field), another JSON value, or no JSON at all
DecodedPayloads ==
    <<
       [raw |-> <<"T", "O", "T", "E", "-", "0", "0", "1">>,
        json |-> "invalid", tote_id |-> Absent],
       [raw |-> <<"I", "n", "v", "e", "n", "t", "o", "r", "y", " ", "T", "O", "T", "E", "-", "0", "0", "1", " ", "l", "a", "b", "e", "l">>,
        json |-> "invalid", tote_id |-> Absent],
       [raw |-> <<"{", "\"", "t", "o", "t", "e", "_", "i", "d", "\"", ":", " ", "\"", "T", "O", "T", "E", "-", "0", "0", "2", "\"", "}">>,
        json |-> "dict", tote_id |-> StrV(<<"T", "O", "T", "E", "-", "0", "0", "2">>)],
       [raw |-> <<"{", "\"", "t", "o", "t", "e", "_", "i", "d", "\"", ":", " ", "\"", "B", "O", "X", "-", "7", "\"", "}">>,
        json |-> "dict", tote_id |-> StrV(<<"B", "O", "X", "-", "7">>)],
       [raw |-> <<"{", "\"", "t", "o", "t", "e", "_", "i", "d", "\"", ":", " ", "\"", "\"", "}">>,
        json |-> "dict", tote_id |-> StrV(<<>>)],
       [raw |-> <<"{", "\"", "t", "o", "t", "e", "_", "i", "d", "\"", ":", " ", "n", "u", "l", "l", ",", " ", "\"", "n", "o", "t", "e", "\"", ":", " ", "\"", "T", "O", "T", "E", "-", "0", "0", "3", "\"", "}">>,
        json |-> "dict", tote_id |-> Null],
       [raw |-> <<"{", "\"", "t", "o", "t", "e", "_", "i", "d", "\"", ":", " ", "7", "}">>,
        json |-> "dict", tote_id |-> IntV(7)],
       [raw |-> <<"{", "\"", "i", "d", "\"", ":", " ", "\"", "T", "O", "T", "E", "-", "0", "0", "4", "\"", "}">>,
        json |-> "dict", tote_id |-> Absent],
       [raw |-> <<"[", "\"", "T", "O", "T", "E", "-", "0", "0", "5", "\"", "]">>,
        json |-> "other", tote_id |-> Absent],
       [raw |-> <<"h", "e", "l", "l", "o">>,
        json |-> "invalid", tote_id |-> Absent],
       [raw |-> <<"1", "2", "3">>,
        json |-> "other", tote_id |-> Absent],
       [raw |-> <<"t", "o", "t", "e", "-", "0", "0", "1">>,
        json |-> "invalid", tote_id |-> Absent],
       [raw |-> <<"T", "O", "T", "E", "-">>,
        json |-> "invalid", tote_id |-> Absent],
       [raw |-> <<"X", "T", "O", "T", "E", "-", "1", "2", "a", "b">>,
        json |-> "invalid", tote_id |-> Absent],
       [raw |-> <<"{", "\"", "t", "o", "t", "e", "_", "i", "d", "\"", ":", " ", "\"", "T", "O", "T", "E", "-", "0", "0", "6", " ", "(", "a", "t", "t", "i", "c", ")", "\"", "}">>,
        json |-> "dict", tote_id |-> StrV(<<"T", "O", "T", "E", "-", "0", "0", "6", " ", "(", "a", "t", "t", "i", "c", ")">>)],
       [raw |-> <<"{", "\"", "t", "o", "t", "e", "_", "i", "d", "\"", ":", " ", "t", "r", "u", "e", "}">>,
        json |-> "dict", tote_id |-> BoolV(TRUE)],
       [raw |-> <<"{", "\"", "t", "o", "t", "e", "_", "i", "d", "\"", ":", " ", "\"", "t", "o", "t", "e", " ", "9", "\"", "}">>,
        json |-> "dict", tote_id |-> StrV(<<"t", "o", "t", "e", " ", "9">>)] >>

(* ------------------------ functions in isolation ---------------------- *)

Call(fn, text, opt) == [fn |-> fn, text |-> text, opt |-> opt]
Returned_value(val) == [done |-> TRUE, val |-> val]

\* apply one function to its arguments
Apply(fn, val) ==
    /\ fn_in.fn = fn
    /\ ~fn_out.done
    /\ fn_out' = Returned_value(val)
    /\ UNCHANGED <<config, scanner, pc, locals, scans, files, disk, remover, updater,
                   tool_runs, v_base, v_data, v_n, v_out, fn_in, seals>>

SearchTitles ==
    {Title_game, Title_dvd, Title_vase, Title_lego_comic, Title_lego_game, Title_comic,
     Title_card, Title_card_comic, Title_bluray_dvd, Title_card_dvd, Title_cd,
     Title_dvd_cd, Title_book, Title_comic_book, Title_cd_book, Title_set,
     Title_lego_dash, Title_bluray_book}

\* the search results handed to should_check_pricecharting, with and without a key
DetectionCalls ==
    {Call("should_check_pricecharting", t, k) :
        t \in SearchTitles \cup {<<>>}, k \in {"key", "no key", "key, no matches"}}

\* should_check_pricecharting(search_results)
Detect ==
    Apply("should_check_pricecharting",
          should_check_pricecharting(fn_in.opt # "no key",
              IF fn_in.opt = "key, no matches" THEN NoMatches ELSE Matches(fn_in.text)))

(* --------------------------- truncation repair ------------------------ *)

\* text.count(c)
count(text, c) == Cardinality({i \in 1..Len(text) : text[i] = c})

\* len(re.findall(r'(?<!\\)"', text)): the quotes not preceded by a backslash
unescaped_quotes(text) ==
    Cardinality({i \in 1..Len(text) : text[i] = "\"" /\ (i = 1 \/ text[i - 1] # "\\")})

\* c * n, empty when n <= 0
repeat(c, n) == [i \in 1..n |-> c]

\* re.sub(r'[,:]\s*$', '', text) on right-stripped text
drop_trailing_separator(text) ==
    IF Len(text) > 0 /\ text[Len(text)] \in {",", ":"}
    THEN SubSeq(text, 1, Len(text) - 1)
    ELSE text

\* _repair_truncated_json
repair_truncated_json(text) ==
    LET open_braces == count(text, "{") - count(text, "}")
        open_brackets == count(text, "[") - count(text, "]")
    IN IF open_braces <= 0 /\ open_brackets <= 0 THEN text
       ELSE LET stripped == rstrip(text)
                closed == IF unescaped_quotes(stripped) % 2 = 1
                          THEN Append(stripped, "\"") ELSE stripped
            IN drop_trailing_separator(closed)
                   \o repeat("]", open_brackets) \o repeat("}", open_braces)

Documents == {Doc_string, Doc_nested, Doc_escaped}

\* an answer cut off anywhere, or not at all
RepairCalls ==
    UNION {{Call("_repair_truncated_json", SubSeq(d, 1, k), "") : k \in 0..Len(d)} :
              d \in Documents}

Repair == Apply("_repair_truncated_json", repair_truncated_json(fn_in.text))

(* ------------------------ platform normalization ---------------------- *)

\* REGIONAL_PLATFORM_PAIRS: Japanese short form, US short form
REGIONAL_PLATFORM_PAIRS ==
    << <<<<"S", "F", "C">>, <<"S", "N", "E", "S">>>>,
       <<<<"F", "C">>, <<"N", "E", "S">>>>,
       <<<<"P", "C", "E">>, <<"T", "G", "-", "1", "6">>>>,
       <<<<"M", "D">>, <<"G", "e", "n", "e", "s", "i", "s">>>> >>

\* d.get(key, default) on a table of pairs
lookup(table, key, default) ==
    LET hits == {i \in 1..Len(table) : table[i][1] = key}
    IN IF hits = {} THEN default ELSE table[CHOOSE i \in hits : TRUE][2]

is_japanese_form(p) == \E i \in 1..Len(REGIONAL_PLATFORM_PAIRS) : REGIONAL_PLATFORM_PAIRS[i][1] = p

\* _US_TO_JP_PLATFORM.get(p, p)
us_to_jp(p) ==
    LET hits == {i \in 1..Len(REGIONAL_PLATFORM_PAIRS) : REGIONAL_PLATFORM_PAIRS[i][2] = p}
    IN IF hits = {} THEN p ELSE REGIONAL_PLATFORM_PAIRS[CHOOSE i \in hits : TRUE][1]

\* \b at position k of text: a word character on one side only
word_boundary(text, k) ==
    LET is_word(i) == i >= 1 /\ i <= Len(text) /\ text[i] \in WordChars
    IN is_word(k - 1) # is_word(k)

\* \bname\b matches text at position i, ignoring case
word_at(text, name, i) ==
    /\ i + Len(name) - 1 <= Len(text)
    /\ lower(SubSeq(text, i, i + Len(name) - 1)) = lower(name)
    /\ word_boundary(text, i)
    /\ word_boundary(text, i + Len(name))

\* re.search(r'\b' + re.escape(name) + r'\b', text, re.IGNORECASE)
search_word(text, name) == \E i \in 1..Len(text) : word_at(text, name, i)

\* re.sub(r'\b' + re.escape(name) + r'\b', '', text, flags=re.IGNORECASE), from i on
RECURSIVE sub_word(_, _, _)
sub_word(text, name, i) ==
    IF i > Len(text) THEN <<>>
    ELSE IF word_at(text, name, i) THEN sub_word(text, name, i + Len(name))
    ELSE <<text[i]>> \o sub_word(text, name, i + 1)

\* the loop of normalize_platform over _ALL_PLATFORM_NAMES from its k-th name on
RECURSIVE extract_platforms(_, _, _)
extract_platforms(k, remaining, found) ==
    IF k > Len(ALL_PLATFORM_NAMES) THEN found
    ELSE LET name == ALL_PLATFORM_NAMES[k]
         IN IF search_word(remaining, name)
            THEN LET normalized == lookup(PLATFORM_NORMALIZE, name, name)
                 IN extract_platforms(k + 1, strip(sub_word(remaining, name, 1)),
                        IF \E i \in 1..Len(found) : found[i] = normalized THEN found
                        ELSE Append(found, normalized))
            ELSE extract_platforms(k + 1, remaining, found)

\* the first platform found that satisfies the test, or found[1]
first_where(found, Test(_)) ==
    LET hits == {i \in 1..Len(found) : Test(found[i])}
    IN IF hits = {} THEN found[1]
       ELSE found[CHOOSE i \in hits : \A j \in hits : i <= j]

Keep_japanese(p) == is_japanese_form(p)
Keep_other(p) == ~is_japanese_form(p)

\* normalize_platform(platform, region); region "null" for None
normalize_platform(platform, region) ==
    IF platform = <<>> THEN platform
    ELSE IF \E i \in 1..Len(PLATFORM_NORMALIZE) : PLATFORM_NORMALIZE[i][1] = platform
    THEN LET short == lookup(PLATFORM_NORMALIZE, platform, platform)
         IN IF region = "NTSC-J" THEN us_to_jp(short) ELSE short
    ELSE LET found == extract_platforms(1, platform, <<>>)
         IN IF found = <<>> THEN platform
            ELSE IF Len(found) = 1
            THEN IF region = "NTSC-J" THEN us_to_jp(found[1]) ELSE found[1]
            ELSE IF region = "NTSC-J" THEN first_where(found, Keep_japanese)
            ELSE IF region = "NTSC-U" THEN first_where(found, Keep_other)
            ELSE found[1]

Regions == {"NTSC-J", "NTSC-U", "PAL", "null"}

NormalizeCalls ==
    {Call("normalize_platform", p, r) : p \in PlatformStrings \cup {<<>>}, r \in Regions}

Normalize == Apply("normalize_platform", normalize_platform(fn_in.text, fn_in.opt))

(* ------------------------ container identification -------------------- *)

Digits == {"0", "1", "2", "3", "4", "5", "6", "7", "8", "9"}
TOTE_prefix == <<"T", "O", "T", "E", "-">>

\* json.loads(qr_data), for the payloads of DecodedPayloads
json_loads(qr_data) ==
    DecodedPayloads[CHOOSE i \in 1..Len(DecodedPayloads) : DecodedPayloads[i].raw = qr_data]

\* re.search(r'(TOTE-\d+)', qr_data): group 1 of the leftmost match, digits taken
\* greedily; the empty sequence for no match
search_tote_id(qr_data) ==
    LET starts == {i \in 1..Len(qr_data) :
                      /\ i + 5 <= Len(qr_data)
                      /\ SubSeq(qr_data, i, i + 4) = TOTE_prefix
                      /\ qr_data[i + 5] \in Digits}
    IN IF starts = {} THEN <<>>
       ELSE LET i == CHOOSE s \in starts : \A t \in starts : s <= t
                ends == {j \in (i + 5)..Len(qr_data) :
                            \A k \in (i + 5)..j : qr_data[k] \in Digits}
                j == CHOOSE e \in ends : \A f \in ends : f <= e
            IN SubSeq(qr_data, i, j)

NotToteQr == [is_tote_qr |-> FALSE, tote_id |-> <<>>, tote_id_safe |-> <<>>]

\* check_for_tote_qr: decoded is "image error" (Image.open or decode raises),
\* "no code" (nothing decoded) or "payload", with the payload's text in qr_data
check_for_tote_qr(decoded, qr_data) ==
    IF decoded # "payload" THEN NotToteQr
    ELSE
    LET data == json_loads(qr_data)
        from_json == IF data.json = "dict" /\ has(data.tote_id) THEN data.tote_id ELSE Null
    IN IF truthy(from_json)
       THEN \* sanitize_filename raises on anything but a string
            IF from_json.t = "str"
            THEN [is_tote_qr |-> TRUE, tote_id |-> from_json.s,
                  tote_id_safe |-> sanitize_filename(from_json.s)]
            ELSE NotToteQr
       ELSE LET tote_id == search_tote_id(qr_data)
            IN IF tote_id = <<>> THEN NotToteQr
               ELSE [is_tote_qr |-> TRUE, tote_id |-> tote_id,
                     tote_id_safe |-> sanitize_filename(tote_id)]

IdentifyCalls ==
    {Call("check_for_tote_qr", DecodedPayloads[i].raw, "payload") :
        i \in 1..Len(DecodedPayloads)}
        \cup {Call("check_for_tote_qr", <<>>, d) : d \in {"no code", "image error"}}

Identify == Apply("check_for_tote_qr", check_for_tote_qr(fn_in.opt, fn_in.text))

FunctionCalls == DetectionCalls \cup RepairCalls \cup NormalizeCalls
        \cup IdentifyCalls

InitFunctions ==
    /\ InitWith({"general"}, {2}, {TRUE})
    /\ v_base = BaseAnswer /\ v_data = BaseAnswer /\ v_n = 0
    /\ fn_in \in FunctionCalls /\ fn_out = NotApplied

NextFunctions ==
    \/ Detect
    \/ Repair
    \/ Normalize
    \/ Identify

SpecFunctions == InitFunctions /\ [][NextFunctions]_vars

(* ------------------------------ manage_seals -------------------------- *)

\* seal numbers typed or passed on the command line
SealNumbers == {"AB1", "AB2"}

\* a tote id no label was generated for
UnknownTote == <<"T", "O", "T", "E", "-", "9", "9", "9">>

\* the totes are tried in the order of the tracking file
first_tote(S) == tote_ids[CHOOSE i \in 1..Len(tote_ids) :
                            /\ tote_ids[i] \in S
                            /\ \A j \in 1..Len(tote_ids) : tote_ids[j] \in S => i <= j]

\* the seal is reported free: no tote is found to hold it
holder_unseen(tracking, seal_number) == {}

\* assign_seal: the totes whose seal is seal_number, the empty seal apart
holder(tracking, seal_number) ==
    {t \in DOMAIN tracking : tracking[t] = seal_number /\ tracking[t] # ""}

\* sorted([k for k, v in tracking.items() if not v])
unassigned_totes(tracking) ==
    SelectSeq(tote_ids, LAMBDA t : tracking[t] = "")

AssignEnds(returned) ==
    /\ as_pc' = "idle"
    /\ as_result' = returned

\* assign_seal up to its prompt, or to its end when nothing is asked: the tracking
\* file is loaded, an unknown tote is refused, a seal no tote holds is assigned and saved
AssignSeal(tote_id, seal_number) ==
    /\ as_pc = "idle"
    /\ as_args' = [tote_id |-> tote_id, seal_number |-> seal_number]
    /\ IF tote_id \notin DOMAIN seal_tracking
       THEN /\ AssignEnds("False")
            /\ as_tracking' = seal_tracking
            /\ UNCHANGED seal_tracking
       ELSE IF holder(seal_tracking, seal_number) # {}
       THEN /\ as_pc' = "prompt"
            /\ as_result' = "None"
            /\ as_tracking' = seal_tracking
            /\ UNCHANGED seal_tracking
       ELSE /\ AssignEnds("True")
            /\ as_tracking' = [seal_tracking EXCEPT ![tote_id] = seal_number]
            /\ seal_tracking' = as_tracking'
    /\ UNCHANGED <<config, scanner, pc, locals, scans, files, disk, remover, updater,
                   tool_runs, v_base, v_data, v_n, v_out, fn_in, fn_out,
                   bk_pc, bk_tracking, bk_unassigned>>

\* assign_seal from the answer to "Reassign to ...? (y/n)": declined, it ends without
\* saving; confirmed, the old assignment is cleared and, no other tote holding the
\* seal, the new one is made and saved
AssignConfirm(confirm) ==
    /\ as_pc = "prompt"
    /\ IF confirm # "y"
       THEN /\ AssignEnds("False")
            /\ UNCHANGED <<as_tracking, seal_tracking>>
       ELSE LET existing_tote == first_tote(holder(as_tracking, as_args.seal_number))
                cleared == [as_tracking EXCEPT ![existing_tote] = ""]
            IN IF holder(cleared, as_args.seal_number) # {}
               THEN /\ as_tracking' = cleared
                    /\ UNCHANGED <<as_pc, as_result, seal_tracking>>
               ELSE /\ AssignEnds("True")
                    /\ as_tracking' = [cleared EXCEPT ![as_args.tote_id] = as_args.seal_number]
                    /\ seal_tracking' = as_tracking'
    /\ UNCHANGED <<config, scanner, pc, locals, scans, files, disk, remover, updater,
                   tool_runs, v_base, v_data, v_n, v_out, fn_in, fn_out,
                   as_args, bk_pc, bk_tracking, bk_unassigned>>

\* bulk_assign up to its first prompt: the file is loaded; with every tote sealed it
\* ends at once
BulkAssign ==
    /\ bk_pc = "idle"
    /\ bk_tracking' = seal_tracking
    /\ bk_unassigned' = unassigned_totes(seal_tracking)
    /\ bk_pc' = IF bk_unassigned' = <<>> THEN "idle" ELSE "prompt"
    /\ UNCHANGED <<config, scanner, pc, locals, scans, files, disk, remover, updater,
                   tool_runs, v_base, v_data, v_n, v_out, fn_in, fn_out,
                   seal_tracking, as_pc, as_tracking, as_args, as_result>>

\* the loop goes on to the next unassigned tote, or saves after the last one
BulkNext(tracking) ==
    /\ bk_tracking' = tracking
    /\ bk_unassigned' = Tail(bk_unassigned)
    /\ IF Tail(bk_unassigned) = <<>>
       THEN bk_pc' = "idle" /\ seal_tracking' = tracking
       ELSE bk_pc' = "prompt" /\ UNCHANGED seal_tracking

\* bulk_assign from one line typed at the prompt of a tote: q saves and ends, s or
\* an empty line skips the tote, a seal some tote holds is asked again, any other
\* seal is assigned
BulkInput(seal_number) ==
    /\ bk_pc = "prompt"
    /\ IF seal_number = "q"
       THEN /\ bk_pc' = "idle"
            /\ seal_tracking' = bk_tracking
            /\ bk_unassigned' = <<>>
            /\ UNCHANGED bk_tracking
       ELSE IF seal_number \in {"s", ""}
       THEN BulkNext(bk_tracking)
       ELSE IF \E t \in DOMAIN bk_tracking : bk_tracking[t] = seal_number
       THEN UNCHANGED <<bk_pc, bk_tracking, bk_unassigned, seal_tracking>>
       ELSE BulkNext([bk_tracking EXCEPT ![Head(bk_unassigned)] = seal_number])
    /\ UNCHANGED <<config, scanner, pc, locals, scans, files, disk, remover, updater,
                   tool_runs, v_base, v_data, v_n, v_out, fn_in, fn_out,
                   as_pc, as_tracking, as_args, as_result>>

InitSeals ==
    /\ InitWith({"general"}, {2}, {TRUE})
    /\ v_base = BaseAnswer /\ v_data = BaseAnswer /\ v_n = 0
    /\ fn_in = NoInput /\ fn_out = NotApplied

\* the two commands of manage_seals run beside each other
NextSeals ==
    \/ \E t \in LabelledTotes \cup {UnknownTote} : \E s \in SealNumbers : AssignSeal(t, s)
    \/ \E confirm \in {"y", "n"} : AssignConfirm(confirm)
    \/ BulkAssign
    \/ \E s \in SealNumbers \cup {"q", "s", ""} : BulkInput(s)

SpecSeals == InitSeals /\ [][NextSeals]_vars

(* ------------------------------- claims ------------------------------- *)

IsRecord(r) == r.kind = "dict" /\ r.status \in {"success", "failed"}

\* C1: every item scan attempted while a tote is selected appends exactly one
\* record, with status success or failed, whatever MAX_RETRIES is configured: what
\* process_item returns to on_created is such a record, and so is every entry of
\* the inventory list.
C1_EveryAttemptYieldsRecord ==
    /\ pc = "returned" => IsRecord(result)
    /\ \A i \in 1..Len(inventory) : IsRecord(inventory[i])

\* C2: a timeout or connection failure of the text-model call in ANALYZE, with
\* fewer than MAX_RETRIES attempts made, is followed by the backoff sleep and
\* another attempt, as it is for the reverse-image search.
C2_AnalyzeNetworkErrorRetried ==
    [][(/\ pc = "analyze"
        /\ calls'.llm = calls.llm + 1
        /\ last_call'.kind \in NetworkKinds
        /\ attempt < MAX_RETRIES)
       => (pc' = "sleep" /\ slept' = Append(slept, backoff(attempt)))]_vars

\* a call of a collaborator has just ended in an exception that is no timeout and
\* no connection failure
ContentErrorStep ==
    /\ pc \in Stages
    /\ calls' # calls
    /\ last_call'.exc # ""
    /\ last_call'.kind \notin NetworkKinds

\* C3: an attempt that ends in a content error (validation hard failure,
\* unparsable answer, non-success HTTP status, any other non-network exception)
\* makes process_item return the failed record in that same attempt, and once it
\* has returned no further collaborator call is made for the item.
C3_ContentErrorNotRetried ==
    [][/\ ContentErrorStep =>
            /\ pc' = "returned"
            /\ attempt' = attempt
            /\ result' = failed_record(current_tote, item_sequence, image_path,
                                       result'.error)
            /\ slept' = slept
       /\ pc = "returned" => (calls' = calls \/ calls' = NoCalls)]_vars

C3_Witness ==
    /\ pc = "returned"
    /\ result.status = "failed"
    /\ last_call = [stage |-> "analyze", kind |-> "json", exc |-> "Exception"]
    /\ MAX_RETRIES = MaxRetriesCfg
    /\ attempt = 1
    /\ calls.llm = 1 /\ calls.search = 1

\* the sleeps made for an item are 2^1, 2^2, ... in this order
ExponentialBackoff == \A i \in 1..Len(slept) : slept[i] = 2 ^ i

\* while process_item runs: attempts and calls stay within MAX_RETRIES and one
\* sleep lies between consecutive attempts
AttemptsBounded ==
    /\ attempt <= MAX_RETRIES
    /\ calls.search <= MAX_RETRIES /\ calls.llm <= MAX_RETRIES
    /\ calls.vision <= MAX_RETRIES /\ calls.pricing <= MAX_RETRIES
    /\ ExponentialBackoff
    /\ pc \in Stages => Len(slept) = attempt - 1
    /\ pc = "sleep" => Len(slept) = attempt

\* the last allowed attempt has just ended in a network-class exception
ExhaustionStep ==
    /\ pc \in Stages
    /\ calls' # calls
    /\ is_network_error(last_call'.exc)
    /\ attempt = MAX_RETRIES

\* C4: process_item makes at most MAX_RETRIES attempts, sleeps 2^attempt between
\* consecutive attempts, returns a failed record carrying the error when the last
\* attempt ends in a network-class error, and always terminates when every
\* collaborator call returns or raises.
C4_RetryBoundedAndTerminates ==
    /\ []AttemptsBounded
    /\ [][ExhaustionStep =>
            /\ pc' = "returned"
            /\ result' = failed_record(current_tote, item_sequence, image_path,
                                       <<last_call'.exc>>)]_vars
    /\ (pc \in Stages \cup {"sleep"}) ~> (pc \in {"returned", "idle", "crashed"})

C4_Witness ==
    /\ pc = "returned"
    /\ result.status = "failed"
    /\ MAX_RETRIES = MaxRetriesCfg
    /\ attempt = MaxRetriesCfg
    /\ slept = <<2, 4>>
    /\ calls.search = MaxRetriesCfg
    /\ is_network_error(last_call.exc)

\* every record any of the programs holds or has written
AllRecords ==
    LET of(q) == {q[i] : i \in 1..Len(q)}
    IN of(inventory) \cup of(inventory_json.items) \cup of(rm_inventory)
         \cup of(up_inventory)
         \cup UNION {of(backups[i].items) : i \in 1..Len(backups)}
         \cup (IF pc = "returned" THEN {result} ELSE {})

\* C5: a record with status failed has the error message and the path of the
\* scanned image and no analysis, in both scanner variants and after removals and
\* price updates.
C5_FailedRecordShape ==
    \A r \in AllRecords :
        r.status = "failed" =>
            /\ {"error", "original_file"} \subseteq r.keys
            /\ r.error # <<>>
            /\ r.original_file \in 1..MaxScans
            /\ r.keys \cap {"ai_analysis", "item_name", "pricecharting_data"} = {}
            /\ r.ai_analysis = NoAnalysis

\* a failed record whose answer was corrected before the validator rejected it
\* lies in inventory.json beside a record the price update has rewritten
C5_Witness ==
    \E i, j \in 1..Len(inventory_json.items) :
        /\ inventory_json.items[i].status = "failed"
        /\ inventory_json.items[i].error[1] = "LLM failed: "
        /\ "pricecharting_updated_at" \in inventory_json.items[j].keys
        /\ variant = "graded"

SequencesOf(inv, tote) == {inv[i].item_sequence : i \in in_tote(inv, tote)}

\* the records of every tote are numbered 1..k, each number once
Contiguous(inv) ==
    \A tote \in Totes :
        /\ SequencesOf(inv, tote) = 1..Cardinality(in_tote(inv, tote))
        /\ \A i, j \in in_tote(inv, tote) :
              inv[i].item_sequence = inv[j].item_sequence => i = j

\* C6: after any tote and item scans, tote switches and restarts, the records of
\* one tote are numbered 1, 2, ..., k without repetition: a tote scan sets the
\* counter to the largest number of that tote, an item scan takes the next one,
\* and a failed item keeps its number.
C6_SequencesDistinctConsecutive ==
    /\ Contiguous(inventory)
    /\ Contiguous(inventory_json.items)
    /\ (pc = "idle" /\ current_tote # NoTote)
          => item_sequence = Cardinality(in_tote(inventory, current_tote))
    /\ pc \in Stages \cup {"sleep", "returned"}
          => item_sequence = Cardinality(in_tote(inventory, current_tote)) + 1
    /\ (pc = "returned" /\ MAX_RETRIES > 0)
          => result.item_sequence = item_sequence /\ result.tote_id = current_tote

\* T1, T2, then T1 again: the failed first item of T1 has number 1, the next 2
C6_Witness ==
    /\ Len(inventory) = 3
    /\ inventory[1].tote_id = T1 /\ inventory[1].status = "failed"
    /\ inventory[2].tote_id = T2 /\ inventory[2].item_sequence = 1
    /\ inventory[3].tote_id = T1 /\ inventory[3].item_sequence = 2
    /\ tool_runs = 0

\* remove_item has just rewritten inventory.json
RemovalStep == rm_pc = "confirm" /\ rm_pc' = "idle" /\ backups' # backups

\* C7: right after remove_item removed a record and resequenced, the records of
\* every tote are numbered exactly 1..k, and the remaining records of the tote
\* keep the order their old numbers gave them (and their place in the list).
C7_ResequenceContiguousOrdered ==
    [][RemovalStep =>
        LET old == rm_inventory
            new == inventory_json'.items
            gone == {i \in 1..Len(old) : /\ old[i].tote_id = rm_target.tote_id
                                          /\ old[i].item_sequence = rm_target.sequence}
            from(i) == i + Cardinality({g \in gone : g <= i})
        IN /\ Cardinality(gone) = 1
           /\ Len(new) = Len(old) - 1
           /\ Contiguous(new)
           /\ \A i \in 1..Len(new) :
                 new[i] = [old[from(i)] EXCEPT !.item_sequence = new[i].item_sequence]
           /\ \A i, j \in in_tote(new, rm_target.tote_id) :
                 (new[i].item_sequence < new[j].item_sequence)
                    <=> (old[from(i)].item_sequence < old[from(j)].item_sequence)]_vars

\* item 1 of a tote of three was removed: the two left are numbered 1 and 2
C7_Witness ==
    /\ Len(backups) = 1 /\ backups[1].tool = "remove"
    /\ Len(backups[1].items) = 3
    /\ \A i \in 1..3 : backups[1].items[i].tote_id = T1
    /\ Len(inventory_json.items) = 2
    /\ inventory_json.items[1] = [backups[1].items[2] EXCEPT !.item_sequence = 1]
    /\ inventory_json.items[2] = [backups[1].items[3] EXCEPT !.item_sequence = 2]

\* what a step of the scanner does to its own list: nothing, an append of the
\* returned record behind the others, or a fresh load when it is started again
ScannerListOnlyAppended ==
    \/ inventory' = inventory
    \/ /\ pc = "returned"
       /\ Len(inventory') = Len(inventory) + 1
       /\ SubSeq(inventory', 1, Len(inventory)) = inventory
       /\ inventory'[Len(inventory')] = result
    \/ /\ pc' = "idle" /\ current_tote' = NoTote /\ item_sequence' = 0
       /\ inventory' = inventory_json.items

\* what a step does to the list in inventory.json: nothing, a write of one of the
\* two tools, or the scanner's save, which adds the returned record at the end
PersistedListOnlyAppended ==
    \/ inventory_json' = inventory_json
    \/ rm_pc = "confirm" /\ rm_pc' = "idle"
    \/ up_pc = "loop" /\ up_pc' = "idle"
    \/ /\ pc = "returned"
       /\ inventory_json'.items = Append(inventory_json.items, result)

\* C8: the identification pipeline only appends: an item scan leaves the records
\* already in the inventory as they are and where they are and puts the new
\* record at the end, a tote scan changes nothing, and existing records change
\* only through remove_item and update_pricecharting.  Stated of the scanner's
\* list and of the list in inventory.json.
C8_PipelineOnlyAppends ==
    [][ScannerListOnlyAppended /\ PersistedListOnlyAppended]_vars

\* the item_name values the claim is about
UnusableNames == {Null, StrV(<<>>), StrV(Blank), IntV(5), IntV(0), ListV(<<>>)}

\* C9: in both scanner variants an answer whose item_name is empty, blank, null
\* or no string, and whose other fields are valid, passes validation with the
\* placeholder name, manual_review_recommended true and a reason.
C9_UnusableNameNeverFails ==
    (/\ v_out # NotRun
     /\ Deviated(v_data) = {"item_name"}
     /\ v_data.item_name \in UnusableNames)
    => /\ ok(v_out)
       /\ v_out.data.item_name = StrV(Unidentified_Item)
       /\ v_out.data.manual_review_recommended = BoolV(TRUE)
       /\ truthy(v_out.data.manual_review_reason)

\* platforms the condition policy names as complete-in-box by default
CibPlatforms == {PlayStation_2, Nintendo_Switch, GameCube, PS_Vita}

\* C10: in the general validator, on a platform that defaults to complete-in-box,
\* LOOSE_DISC and LOOSE_CART become COMPLETE_IN_BOX with review flagged, and
\* every other valid pricing_basis stays as the model gave it, review unflagged.
C10_PlatformPolicyOverride ==
    (/\ v_out # NotRun
     /\ variant = "general"
     /\ Deviated(v_data) \subseteq {"platform", "pricing_basis"}
     /\ v_data.platform.t = "str" /\ v_data.platform.s \in CibPlatforms
     /\ in_list(v_data.pricing_basis, valid_pricing))
    => /\ ok(v_out)
       /\ IF v_data.pricing_basis.s \in {LOOSE_DISC, LOOSE_CART}
          THEN /\ v_out.data.pricing_basis = StrV(COMPLETE_IN_BOX)
               /\ v_out.data.manual_review_recommended = BoolV(TRUE)
               /\ truthy(v_out.data.manual_review_reason)
          ELSE /\ v_out.data.pricing_basis = v_data.pricing_basis
               /\ v_out.data.manual_review_recommended = BoolV(FALSE)
               /\ v_out.data.manual_review_reason = v_data.manual_review_reason

C10_Witness ==
    /\ variant = "general"
    /\ ok(v_out)
    /\ v_data.platform = StrV(Nintendo_Switch)
    /\ v_data.pricing_basis = StrV(LOOSE_CART)
    /\ v_out.data.pricing_basis = StrV(COMPLETE_IN_BOX)
    /\ v_out.data.manual_review_recommended = BoolV(TRUE)

\* the well-formed answers for physical media: DVD, Blu-ray, CD, no platform
MediaAnswers == {MediaAnswer(c) : c \in {DVD, Blu_ray, CD}}

\* C11: in the general validator the condition policy covers the physical-media
\* categories too: for a DVD, Blu-ray or CD (platform null) a pricing_basis of
\* LOOSE_DISC or LOOSE_CART becomes COMPLETE_IN_BOX and review is flagged.
C11_MediaPolicyOverride ==
    (/\ v_out # NotRun
     /\ variant = "general"
     /\ v_base \in MediaAnswers
     /\ Changed = {"pricing_basis"}
     /\ v_data.pricing_basis \in {StrV(LOOSE_DISC), StrV(LOOSE_CART)})
    => /\ ok(v_out)
       /\ v_out.data.pricing_basis = StrV(COMPLETE_IN_BOX)
       /\ v_out.data.manual_review_recommended = BoolV(TRUE)

\* what the validator does with an integer option index, given v_n options offered
MatchIndexRules ==
    LET given == v_data.pricecharting_match_used
        kept == v_out.data.pricecharting_match_used
    IN (v_out # NotRun /\ ok(v_out) /\ given.t = "int") =>
          IF v_n = 0
          THEN /\ kept = Null
               /\ v_out.data.pricecharting_match_confidence = StrV(NONE)
          ELSE IF given.n < 100 \/ given.n > 100 * v_n
          THEN /\ kept = Null
               /\ v_out.data.manual_review_recommended = BoolV(TRUE)
          ELSE kept = given

\* after a successful validation the option index is null or an integer in 1..v_n
MatchIndexInRange ==
    LET kept == v_out.data.pricecharting_match_used
    IN (v_out # NotRun /\ ok(v_out)) =>
          \/ ~not_none(kept)
          \/ kept.t = "int" /\ kept.n \in {100 * k : k \in 1..v_n}

\* C12: with n pricing options offered, a non-null pricecharting_match_used is
\* nulled with pricecharting_match_confidence NONE when n = 0, nulled with review
\* flagged when n > 0 and it lies outside 1..n, and kept when inside; so after
\* every successful validation it is null or an integer in 1..n.
C12_MatchIndexValid == MatchIndexRules /\ MatchIndexInRange

\* the corrections of a value the model asserted and could not be trusted on
BasisDefaulted == v_data.pricing_basis = Null
BasisTakenFromList ==
    v_data.pricing_basis.t = "str" /\ contains(v_data.pricing_basis.s, <<"/">>)
IndexNulled ==
    /\ not_none(v_data.pricecharting_match_used)
    /\ ~not_none(v_out.data.pricecharting_match_used)
GradesDisagree ==
    /\ variant = "graded"
    /\ is_number(v_out.data.vision_grade) /\ is_number(v_out.data.grade)
    /\ \/ v_out.data.vision_grade.n - v_out.data.grade.n > 10
       \/ v_out.data.grade.n - v_out.data.vision_grade.n > 10
PlatformOverridden ==
    /\ \/ v_data.pricing_basis \in {StrV(LOOSE_DISC), StrV(LOOSE_CART)}
       \/ BasisTakenFromList
    /\ v_out.data.pricing_basis = StrV(COMPLETE_IN_BOX)
    /\ v_out.data.pricing_basis # v_data.pricing_basis

ReviewFlagged ==
    /\ v_out.data.manual_review_recommended = BoolV(TRUE)
    /\ truthy(v_out.data.manual_review_reason)

\* every correction but the nulled option index flags review
ReviewAfterOtherCorrections ==
    (/\ v_out # NotRun /\ ok(v_out)
     /\ \/ BasisDefaulted \/ BasisTakenFromList \/ GradesDisagree \/ PlatformOverridden
        \/ IndexNulled /\ v_n > 0)
    => ReviewFlagged

\* C13: whenever validation succeeds after a correction of a value the model
\* could not be trusted on (pricing_basis defaulted from null or taken from a
\* '/'-separated list, option index nulled because it was not among the options
\* offered, vision and text grade more than 0.1 apart, platform-default
\* override), manual_review_recommended is true and the reason is not empty.
C13_CorrectionsFlagReview ==
    (/\ v_out # NotRun /\ ok(v_out)
     /\ \/ BasisDefaulted \/ BasisTakenFromList \/ IndexNulled \/ GradesDisagree
        \/ PlatformOverridden)
    => ReviewFlagged

\* a range bound of the answer that is present is a number (no boolean) and not
\* negative
BoundUsable(v) == has(v) => v.t \in {"int", "float"} /\ v.n >= 0
Inverted(data) == get_or_zero(data.value_range_min) > get_or_zero(data.value_range_max)

\* C14: when the range bounds that are present are numeric and not negative, an
\* inverted range (min > max) is swapped and is no cause of failure, the swap
\* alone leaves manual_review_recommended as the model gave it, and after every
\* successful validation value_range_min <= value_range_max.
C14_RangeSwapped ==
    (/\ v_out # NotRun
     /\ BoundUsable(v_data.value_range_min) /\ BoundUsable(v_data.value_range_max)
     /\ Changed \subseteq {"value_range_min", "value_range_max"})
    => /\ ok(v_out)
       /\ get_or_zero(v_out.data.value_range_min) <= get_or_zero(v_out.data.value_range_max)
       /\ Inverted(v_data) =>
             /\ v_out.data.value_range_min = v_data.value_range_max
             /\ v_out.data.value_range_max = v_data.value_range_min
       /\ v_out.data.manual_review_recommended = v_data.manual_review_recommended

\* with both bounds present the swap does what the claim says
RangeSwappedWhenBothPresent ==
    (has(v_data.value_range_min) /\ has(v_data.value_range_max)) => C14_RangeSwapped

\* the two grades of the answer are numbers, and how far apart, in hundredths
BothGradesRead(data) ==
    /\ data.vision_grade.t \in {"int", "float"}
    /\ data.grade.t \in {"int", "float"}
GradeGap(data) ==
    IF data.vision_grade.n >= data.grade.n
    THEN data.vision_grade.n - data.grade.n
    ELSE data.grade.n - data.vision_grade.n
WarningsOf(data) == IF has(data.warnings) THEN data.warnings.s ELSE <<>>

\* C15: in the grading variant, when the vision grade and the model's grade are
\* both present and more than 0.1 apart, one mismatch warning is appended, review
\* is flagged and the grade is left as it was; when they are at most 0.1 apart no
\* warning is appended and review is not flagged.
C15_GradeCrossValidation ==
    (/\ v_out # NotRun /\ ok(v_out)
     /\ variant = "graded"
     /\ Changed \subseteq {"grade", "vision_grade", "warnings"}
     /\ BothGradesRead(v_data))
    => /\ v_out.data.grade = v_data.grade
       /\ IF GradeGap(v_data) > 10
          THEN /\ WarningsOf(v_out.data) = Append(WarningsOf(v_data), mismatch_warning)
               /\ v_out.data.manual_review_recommended = BoolV(TRUE)
          ELSE /\ WarningsOf(v_out.data) = WarningsOf(v_data)
               /\ v_out.data.manual_review_recommended = v_data.manual_review_recommended

\* apart from readings exactly 0.1 apart the rule does what the claim says
GradeRuleAwayFromTenth ==
    (BothGradesRead(v_data) /\ GradeGap(v_data) # 10) => C15_GradeCrossValidation

\* the vision pass of the graded scanner has just been made
VisionStep == pc = "vision" /\ calls'.vision = calls.vision + 1

\* C16: in the grading variant no failure of the vision pass aborts the item:
\* whatever the pass meets (error status, timeout, empty or unparsable text, an
\* image that cannot be opened or downscaled) it yields the all-null reading and
\* the item goes on to SEARCH; a vision failure alone gives no failed record.
C16_VisionNeverAborts ==
    [][VisionStep =>
          /\ pc' = "search"
          /\ last_call'.kind # "read" => vision_grade_info' = NoReading]_vars

PricingStep == pc = "pricing" /\ calls'.pricing = calls.pricing + 1

\* C17: the pricing stage cannot fail an item: whatever the lookup does (a non-success
\* status, no products, a timeout, no connection, a raising detail call, or an answer),
\* the item goes on to ANALYZE in the same attempt, without a failed record and without
\* a sleep, carrying no pricing options when the lookup gave no answer and otherwise
\* the candidates fetched, at most PRICECHARTING_MAX_RESULTS of them.
C17_PricingNeverFails ==
    [][PricingStep =>
          /\ pc' = "analyze"
          /\ attempt' = attempt
          /\ slept' = slept
          /\ result' = result
          /\ Len(pricecharting_results') <= PRICECHARTING_MAX_RESULTS
          /\ last_call'.kind \in PricingFailureKinds => pricecharting_results' = <<>>]_vars

\* an item waiting to be analysed after a lookup that timed out, or after one whose
\* products were cut to the maximum
C17_Witness ==
    /\ pc = "analyze"
    /\ calls.pricing > 0
    /\ \/ last_call.kind = "timeout" /\ pricecharting_results = <<>>
       \/ last_call.kind = "ok" /\ Len(pricecharting_results) = PRICECHARTING_MAX_RESULTS

\* remove_item leaves its prompt: with the answer y it rewrites the files
RemovalAnswered == rm_pc = "confirm" /\ rm_pc' = "idle"

RemovalBackup(items) == Append(backups, [tool |-> "remove", items |-> items])

BackupHoldsLoadedList ==
    [][RemovalAnswered =>
          /\ inventory_json' # inventory_json => backups' = RemovalBackup(rm_inventory)
          /\ backups' = backups =>
                inventory_json' = inventory_json /\ inventory_csv' = inventory_csv]_vars

PresentNonBoolean(v) == v # Absent /\ v.t # "bool"
PresentNonList(v) == v # Absent /\ v.t # "list"

\* C19: type checks are not masked by auto-corrections: an answer in which
\* manual_review_recommended or personal_effect_eligible is present and not a boolean,
\* or warnings is present and not a list, never validates, whatever else in the answer
\* is auto-corrected.
C19_TypeChecksNotMasked ==
    (/\ v_out # NotRun
     /\ \/ PresentNonBoolean(v_data.manual_review_recommended)
        \/ PresentNonBoolean(v_data.personal_effect_eligible)
        \/ PresentNonList(v_data.warnings))
    => ~ok(v_out)

\* What the code does guarantee: the checks of personal_effect_eligible and of warnings
\* are never masked, no correction writes those fields before they are checked.
UnwrittenFieldsTypeChecked ==
    (/\ v_out # NotRun
     /\ \/ PresentNonBoolean(v_data.personal_effect_eligible)
        \/ PresentNonList(v_data.warnings))
    => ~ok(v_out)

\* the fields the Analysis must carry
AnalysisRequired ==
    {"item_name", "confidence", "confidence_reason", "estimated_value_usd",
     "value_range_min", "value_range_max", "price_source", "pricing_basis", "category"}

MissingFieldsError == v_out.err = "ValueError: Missing required fields"

\* C20: validation fails with the missing-fields error exactly when a required field of
\* the Analysis (item_name, confidence, confidence_reason, estimated_value_usd,
\* value_range_min, value_range_max, price_source, pricing_basis, category) is absent
\* from the answer: an absent one always gives that error, and an answer carrying all
\* of them never does.
C20_MissingFieldsRejected ==
    v_out # NotRun =>
        (MissingFieldsError <=> \E f \in AnalysisRequired : v_data[f] = Absent)

\* What the code does guarantee: the same, for the seven fields the validators list;
\* value_range_min and value_range_max are not among them.
ListedFieldsRequired ==
    v_out # NotRun =>
        (MissingFieldsError <=> \E f \in required_fields : v_data[f] = Absent)

\* cartridge platforms whose mandatory default is LOOSE_CART, one of them under its
\* Japanese-market name
CartridgePlatforms == {SNES, Game_Boy_Advance, PC_Engine}

LooseCartOn(platforms) ==
    /\ v_out # NotRun
    /\ variant = "general"
    /\ Deviated(v_data) = {"platform", "pricing_basis"}
    /\ v_data.platform.t = "str" /\ v_data.platform.s \in platforms
    /\ v_data.pricing_basis = StrV(LOOSE_CART)

LooseCartKept ==
    /\ ok(v_out)
    /\ v_out.data.pricing_basis = StrV(LOOSE_CART)
    /\ v_out.data.manual_review_recommended = BoolV(FALSE)

\* C21: on a cartridge-based retro platform whose mandatory default is loose
\* cartridge (Japanese-market names included), validation leaves the model's
\* pricing_basis = LOOSE_CART as it is and does not flag manual review for it.
C21_LooseCartKept == LooseCartOn(CartridgePlatforms) => LooseCartKept

\* What the code does guarantee: the same for the cartridge platforms whose name
\* contains none of the complete-in-box keywords.
LooseCartKeptWithoutCibKeyword ==
    LooseCartOn(CartridgePlatforms \ {PC_Engine}) => LooseCartKept

\* the category tests on a lower-cased title, in the order of the priority list
CategoryTests(m) ==
    << is_game(m), is_lego(m), is_comic(m), is_card(m),
       is_bluray(m), is_dvd(m), is_cd(m), is_book(m) >>
CategoryOrder ==
    << Video_Game_Software, LEGO, Comic_Books, Trading_Cards, Blu_ray, DVD, CD, Books >>

DetectionDone == fn_in.fn = "should_check_pricecharting" /\ fn_out.done

\* C22: category detection is a fixed-priority choice over the first-ranked title: a
\* lookup is requested, with exactly one category, if and only if a pricing key is
\* configured and at least one category test matches the title, and the category is
\* the first match in the order video game, LEGO, comic, trading card, Blu-ray, DVD,
\* CD, book; with no match, or no search result, no lookup and no category.
C22_CategoryByPriority ==
    DetectionDone =>
        LET tests == CategoryTests(lower(fn_in.text))
            hits == {i \in 1..Len(CategoryOrder) : tests[i]}
            first == CHOOSE i \in hits : \A j \in hits : i <= j
        IN IF fn_in.opt = "key" /\ hits # {}
           THEN fn_out.val.check /\ fn_out.val.category = CategoryOrder[first]
           ELSE ~fn_out.val.check /\ fn_out.val.category = <<>>

\* a title that matches the Blu-ray test and the DVD test is looked up as Blu-ray
C22_Witness ==
    /\ DetectionDone
    /\ fn_in.opt = "key"
    /\ is_dvd(lower(fn_in.text)) /\ is_bluray(lower(fn_in.text))
    /\ fn_out.val.check /\ fn_out.val.category = Blu_ray

\* The text is well nested: read from position i with the open structures on the
\* stack, every string is closed and every closing bracket or brace closes the
\* innermost open structure, none left open at the end.
RECURSIVE NestedFrom(_, _, _, _)
NestedFrom(text, i, stack, in_string) ==
    IF i > Len(text) THEN stack = <<>> /\ ~in_string
    ELSE IF in_string
    THEN IF text[i] = "\\" THEN NestedFrom(text, i + 2, stack, TRUE)
         ELSE NestedFrom(text, i + 1, stack, text[i] # "\"")
    ELSE IF text[i] = "\"" THEN NestedFrom(text, i + 1, stack, TRUE)
    ELSE IF text[i] \in {"{", "["} THEN NestedFrom(text, i + 1, <<text[i]>> \o stack, FALSE)
    ELSE IF text[i] \in {"}", "]"}
    THEN /\ stack # <<>>
         /\ Head(stack) = (IF text[i] = "}" THEN "{" ELSE "[")
         /\ NestedFrom(text, i + 1, Tail(stack), FALSE)
    ELSE NestedFrom(text, i + 1, stack, FALSE)

WellNested(text) == NestedFrom(text, 1, <<>>, FALSE)

Balanced(text) ==
    count(text, "{") = count(text, "}") /\ count(text, "[") = count(text, "]")

RepairDone == fn_in.fn = "_repair_truncated_json" /\ fn_out.done

\* C23: truncation repair: text already balanced in braces and brackets comes back
\* unchanged; text cut off inside any nesting of objects and arrays comes back well
\* nested: the open string closed, a dangling comma or colon dropped, and the missing
\* brackets and braces appended in the order that closes the open structures.
C23_TruncationRepaired ==
    RepairDone =>
        IF Balanced(fn_in.text) THEN fn_out.val = fn_in.text
        ELSE WellNested(fn_out.val)

\* What the code does guarantee: balanced text comes back unchanged, and an object
\* without arrays cut off anywhere (but not behind a backslash) comes back well
\* nested, {"a": "x becoming {"a": "x"}.
FlatObjectRepaired ==
    RepairDone =>
        /\ Balanced(fn_in.text) => fn_out.val = fn_in.text
        /\ (\E k \in 1..Len(Doc_string) : fn_in.text = SubSeq(Doc_string, 1, k))
               => WellNested(fn_out.val)
        /\ fn_in.text = SubSeq(Doc_string, 1, 8) => fn_out.val = Doc_string

NormalizeDone == fn_in.fn = "normalize_platform" /\ fn_out.done

\* the regional pairs both of whose platforms the string names
PairsNamed(text) ==
    LET found == extract_platforms(1, text, <<>>)
        named(p) == \E k \in 1..Len(found) : found[k] = p
    IN {i \in 1..Len(REGIONAL_PLATFORM_PAIRS) :
           named(REGIONAL_PLATFORM_PAIRS[i][1]) /\ named(REGIONAL_PLATFORM_PAIRS[i][2])}

RegionalChoice(regions) ==
    (NormalizeDone /\ fn_in.opt \in regions) =>
        \A i \in PairsNamed(fn_in.text) :
            fn_out.val = REGIONAL_PLATFORM_PAIRS[i][IF fn_in.opt = "NTSC-J" THEN 1 ELSE 2]

\* C24: regional platform disambiguation: for a platform string that names both a
\* Japanese-market platform and its US/PAL counterpart, normalize_platform returns the
\* Japanese short form (SFC, FC, PCE, MD) when the region is NTSC-J and the other
\* short form (SNES, NES, TG-16, Genesis) for every other region: NTSC-U, PAL, null.
C24_RegionalPlatformChoice == RegionalChoice(Regions)

\* What the code does guarantee: the same for the regions NTSC-J and NTSC-U.
RegionalChoiceWhenRegionKnown == RegionalChoice({"NTSC-J", "NTSC-U"})

\* TOTE-<digits>
IsToteId(q) ==
    /\ Len(q) > Len(TOTE_prefix)
    /\ SubSeq(q, 1, Len(TOTE_prefix)) = TOTE_prefix
    /\ \A k \in (Len(TOTE_prefix) + 1)..Len(q) : q[k] \in Digits

IdentifyDone == fn_in.fn = "check_for_tote_qr" /\ fn_out.done

\* C25: container identification returns either "not a container marker" or an
\* identifier of the form TOTE-<digits>, for every decoded payload: a JSON object with
\* a tote_id field, plain text, or text that contains a tote id.
C25_ToteIdMatchesPattern ==
    IdentifyDone => (fn_out.val.is_tote_qr => IsToteId(fn_out.val.tote_id))

\* What the code does guarantee: the identifier has that form whenever it was found
\* by the pattern search, that is unless a JSON object supplied its tote_id field.
ToteIdFromSearchMatchesPattern ==
    (IdentifyDone /\ fn_in.opt = "payload" /\ ~truthy(json_loads(fn_in.text).tote_id)) =>
        (fn_out.val.is_tote_qr => IsToteId(fn_out.val.tote_id))

\* inventory.csv has one data row per record of the list, in list order
CsvDerivedFrom(items, rows) ==
    /\ Len(rows) = Len(items)
    /\ \A i \in 1..Len(items) : rows[i] = csv_row(items[i])

\* C26: the flat export is derived from the same list on every write: once a tool has
\* written the persisted inventory (a scanner save, remove_item, update_pricecharting),
\* inventory.csv has exactly one data row per record of inventory.json, in list order,
\* failed records included.
C26_CsvDerivedFromList ==
    inventory_json.exists => CsvDerivedFrom(inventory_json.items, inventory_csv)

\* What the code does guarantee: the same after every write of the scanner and of
\* remove_item.
CsvDerivedByScannerAndRemover ==
    [][(inventory_json' # inventory_json /\ up_pc' = up_pc)
          => CsvDerivedFrom(inventory_json'.items, inventory_csv')]_vars

\* the scanner's save after an item scan (a scanner started again has no tote)
ScannerSaves == pc = "returned" /\ pc' # "returned" /\ current_tote' # NoTote

\* The save keeps what is persisted: every record written, the new last one apart, is
\* a record of the persisted list as it was, and the new record's tote and sequence
\* number are those of no persisted record.
SaveKeepsPersisted ==
    LET before == inventory_json.items
        after == inventory_json'.items
        new == after[Len(after)]
    IN /\ \A i \in 1..(Len(after) - 1) : \E k \in 1..Len(before) : after[i] = before[k]
       /\ \A k \in 1..Len(before) :
             ~(before[k].tote_id = new.tote_id
               /\ before[k].item_sequence = new.item_sequence)

\* C27: a removal is durable when the tools interleave: after remove_item or
\* update_pricecharting has rewritten inventory.json beside a running scanner, the
\* scanner's next save keeps the effect of the tool: no removed record comes back, no
\* resequenced number is reverted, and the new item's sequence number collides with no
\* record of the persisted list.
C27_ToolWritesSurviveSave == [][ScannerSaves => SaveKeepsPersisted]_vars

\* What the code does guarantee: the same whenever the scanner's list is the
\* persisted one, that is while no tool has written since the scanner loaded it.
SaveKeepsPersistedWhenInStep ==
    [][(ScannerSaves /\ inventory = inventory_json.items) => SaveKeepsPersisted]_vars

\* no seal number, the empty one apart, is mapped to two totes
SealsUnique(tracking) ==
    \A t, u \in DOMAIN tracking :
        (tracking[t] # "" /\ tracking[t] = tracking[u]) => t = u

\* a run of assign_seal ends with the return value False
AssignRefused ==
    /\ as_pc' = "idle" /\ as_result' = "False"
    /\ <<as_pc, as_args, as_result>>' # <<as_pc, as_args, as_result>>

\* C28: seal uniqueness: from the template in which every tote has an empty seal,
\* after any sequence of assign_seal and bulk_assign operations, whatever is answered,
\* skipped or quit, no non-empty seal number is mapped to two different totes in the
\* saved tracking data; and assign_seal on an unknown tote id, or declined at the
\* reassign prompt, leaves the saved tracking data unchanged.
C28_SealsUnique ==
    /\ []SealsUnique(seal_tracking)
    /\ [][AssignRefused => seal_tracking' = seal_tracking]_vars

\* bulk mode gave seal AB1 to TOTE-001 and saved; assign_seal then moved it to
\* TOTE-002 after the reassign prompt was confirmed
C28_Witness ==
    /\ bk_pc = "idle" /\ bk_tracking[T1] = "AB1"
    /\ as_pc = "idle" /\ as_result = "True"
    /\ as_args = [tote_id |-> T2, seal_number |-> "AB1"]
    /\ seal_tracking[T1] = "" /\ seal_tracking[T2] = "AB1"

(* ------------------------------- C29 ---------------------------------- *)

\* on_created received an item image while no tote was selected
UntotedScan == scans' # scans /\ current_tote = NoTote

\* C29: an item image scanned while no tote is selected is ignored: no record
\* is appended, the sequence counter and the persisted inventory (JSON, CSV,
\* backups) are unchanged, no collaborator is called, the handler is idle
\* again, and the image stays in the scan directory, nothing being organized
C29_UntotedScanIgnored ==
    [][UntotedScan =>
        /\ inventory' = inventory
        /\ item_sequence' = item_sequence
        /\ current_tote' = NoTote
        /\ disk' = disk
        /\ calls' = calls
        /\ pc' = "idle"
        /\ organized' = organized
        /\ scan_dir' = scan_dir \cup {scans'}]_vars

\* the first image of a run was scanned without a tote and is still where it was
C29_Witness ==
    /\ current_tote = NoTote
    /\ scans = 1
    /\ scan_dir = {1}
    /\ organized = {}
    /\ inventory = <<>>
    /\ item_sequence = 0
    /\ ~inventory_json.exists
    /\ pc = "idle"

(* ------------------------------- C30 ---------------------------------- *)

SuccessRecords(inv) == {i \in 1..Len(inv) : inv[i].kind = "dict" /\ inv[i].status = "success"}

\* the image name of every success record carries the record's sequence number
\* and tote, and no two success records of a tote share an image name
ImagesInStep(inv) ==
    /\ \A i \in SuccessRecords(inv) :
          /\ inv[i].image_file.sequence = inv[i].item_sequence
          /\ inv[i].image_file.tote = sanitize_filename(inv[i].tote_id)
    /\ \A i, j \in SuccessRecords(inv) :
          (inv[i].tote_id = inv[j].tote_id /\ inv[i].image_file = inv[j].image_file)
              => i = j

\* process_item moved the scanned image into the tote directory
ImageMoved == pc = "analyze" /\ pc' = "returned" /\ result'.status = "success"

\* the image files named by the success records of the scanner's list and of
\* inventory.json
RecordedImages ==
    {inventory[i].image_file : i \in SuccessRecords(inventory)}
        \cup {inventory_json.items[i].image_file : i \in SuccessRecords(inventory_json.items)}

\* C30: image names stay in step with records: in every reachable state, in the
\* scanner's list and in inventory.json, each success record's image_file embeds
\* the record's current item_sequence and tote id and is shared with no other
\* success record of the tote, and a newly scanned item is never moved onto the
\* image file of an existing record
C30_ImageNamesInStep ==
    /\ [](ImagesInStep(inventory) /\ ImagesInStep(inventory_json.items))
    /\ [][ImageMoved => result'.image_file \notin RecordedImages]_vars

\* what holds: while remove_item has rewritten nothing, image names are in step
ImagesInStepBeforeRemoval ==
    (\A k \in 1..Len(backups) : backups[k].tool # "remove")
        => ImagesInStep(inventory) /\ ImagesInStep(inventory_json.items)

\* every list is in step (fails after a removal)
ImagesInStepEverywhere == ImagesInStep(inventory) /\ ImagesInStep(inventory_json.items)

\* no move lands on the image of a record (fails after removal and restart)
NeverMovedOntoRecordedImage == [][ImageMoved => result'.image_file \notin RecordedImages]_vars

====
